---- MODULE Spec2Model ----
(***************************************************************************)
(* Model of src/server.js, the Meribel avalanche API.  The file holds      *)
(* three successive revisions of the server; the model covers revision 2   *)
(* (lines 353-829: structured source, then page scraping, then mock data)  *)
(* and revision 3 (lines 830-1329: structured source, then fallback, plus  *)
(* the extended forecast).  The variable rev says which one is running.    *)
(*                                                                         *)
(* JavaScript values: numbers are integers, NaN is the number NaN below,   *)
(* undefined and null are the strings Undefined and Null, text is a        *)
(* string, an attribute value is a sequence of one-character strings.      *)
(***************************************************************************)
EXTENDS Integers, Sequences, FiniteSets, TLC

(***************************************************************************)
(* JavaScript primitives the handlers use.                                 *)
(***************************************************************************)
\* The result of parseInt on text that does not start with a number; kept
\* apart from every number an attribute can spell.
NaN == -1000000

Undefined == "undefined"

Null == "null"

IsNaN(x) == x = NaN

\* A comparison that leaves out equality.
JsGe_Strict(a, b) == ~IsNaN(a) /\ ~IsNaN(b) /\ a > b

\* a >= b on numbers: false as soon as one side is NaN.
JsGe(a, b) == ~IsNaN(a) /\ ~IsNaN(b) /\ a >= b

\* a > b on numbers: false as soon as one side is NaN.
JsGt(a, b) == ~IsNaN(a) /\ ~IsNaN(b) /\ a > b

\* Math.min written where Math.max is meant.
MathMax_Min(a, b) == IF IsNaN(a) \/ IsNaN(b) THEN NaN ELSE IF a <= b THEN a ELSE b

\* Math.max(a, b): NaN as soon as one argument is NaN.
MathMax(a, b) == IF IsNaN(a) \/ IsNaN(b) THEN NaN ELSE IF a >= b THEN a ELSE b

\* Math.min(a, b): NaN as soon as one argument is NaN.
MathMin(a, b) == IF IsNaN(a) \/ IsNaN(b) THEN NaN ELSE IF a <= b THEN a ELSE b

\* a + b on numbers.
JsAdd(a, b) == IF IsNaN(a) \/ IsNaN(b) THEN NaN ELSE a + b

Digits == <<"0", "1", "2", "3", "4", "5", "6", "7", "8", "9">>

IsDigit(c) == \E i \in 1..10 : Digits[i] = c

DigitVal(c) == (CHOOSE i \in 1..10 : Digits[i] = c) - 1

IsSpace(c) == c = " "

RECURSIVE SkipSpaces(_)
SkipSpaces(s) == IF s # <<>> /\ IsSpace(Head(s)) THEN SkipSpaces(Tail(s)) ELSE s

\* The value of the longest prefix of digits of s, continuing from acc.
RECURSIVE DigitRun(_, _)
DigitRun(s, acc) ==
  IF s # <<>> /\ IsDigit(Head(s))
  THEN DigitRun(Tail(s), acc * 10 + DigitVal(Head(s)))
  ELSE acc

\* parseInt(s) in base 10: leading blanks skipped, an optional sign, then the
\* digits up to the first other character; NaN when no digit is there.
ParseInt(s) ==
  LET t == SkipSpaces(s)
      neg == t # <<>> /\ Head(t) = "-"
      pos == t # <<>> /\ Head(t) = "+"
      u == IF neg \/ pos THEN Tail(t) ELSE t
  IN IF u = <<>> \/ ~IsDigit(Head(u)) THEN NaN
     ELSE IF neg THEN 0 - DigitRun(u, 0) ELSE DigitRun(u, 0)

\* $('RISQUE').attr(name) || dflt: an absent or empty attribute reads as dflt.
AttrOr(a, dflt) == IF a = <<>> THEN dflt ELSE a

\* The decimal text of a number inside a template literal.
NumText(n) ==
  IF IsNaN(n) THEN "NaN"
  ELSE IF n < 0 THEN "-" \o ToString(0 - n) ELSE ToString(n)

(***************************************************************************)
(* Risk rules of revision 3 (lines 1100-1265).                             *)
(***************************************************************************)
\* The lookup without its default: descriptions[level].
getRiskDescription_NoDefault(level) ==
  CASE level = 1 -> "Generally safe conditions."
    [] level = 2 -> "Heightened avalanche conditions on specific terrain features. Careful evaluation needed."
    [] level = 3 -> "Dangerous avalanche conditions. Careful snowpack evaluation required."
    [] level = 4 -> "Very dangerous conditions. Travel in avalanche terrain not recommended."
    [] level = 5 -> "Extraordinary conditions. Avoid all avalanche terrain."
    [] OTHER -> Undefined

\* descriptions[level] || descriptions[3]
getRiskDescription(level) ==
  CASE level = 1 -> "Generally safe conditions."
    [] level = 2 -> "Heightened avalanche conditions on specific terrain features. Careful evaluation needed."
    [] level = 4 -> "Very dangerous conditions. Travel in avalanche terrain not recommended."
    [] level = 5 -> "Extraordinary conditions. Avoid all avalanche terrain."
    [] OTHER -> "Dangerous avalanche conditions. Careful snowpack evaluation required."

\* The builder with the middle band always one below the high band.
generateElevationBands_MidBelowHigh(highRisk, lowRisk) ==
  << [elevation |-> "Above 2500m",
      risk |-> highRisk,
      aspects |-> IF JsGe(highRisk, 3) THEN <<"N", "NE", "E", "NW">> ELSE <<"N", "NE">>,
      description |-> getRiskDescription(highRisk)
                      \o " Wind-loaded slopes and shaded aspects are most critical."],
     [elevation |-> "2000m - 2500m",
      risk |-> JsAdd(highRisk, -1),
      aspects |-> <<"N", "NE", "E">>,
      description |-> getRiskDescription(JsAdd(highRisk, -1))
                      \o " Evaluate conditions carefully on steep north-facing terrain."],
     [elevation |-> "Below 2000m",
      risk |-> lowRisk,
      aspects |-> IF JsGe(lowRisk, 3) THEN <<"All">> ELSE <<"S", "SE", "SW">>,
      description |-> getRiskDescription(lowRisk)
                      \o (IF JsGe(lowRisk, 2)
                          THEN " Warming temperatures may cause wet snow instabilities on sunny slopes."
                          ELSE "")] >>

generateElevationBands(highRisk, lowRisk) ==
  << [elevation |-> "Above 2500m",
      risk |-> highRisk,
      aspects |-> IF JsGe(highRisk, 3) THEN <<"N", "NE", "E", "NW">> ELSE <<"N", "NE">>,
      description |-> getRiskDescription(highRisk)
                      \o " Wind-loaded slopes and shaded aspects are most critical."],
     [elevation |-> "2000m - 2500m",
      risk |-> MathMax(JsAdd(highRisk, -1), lowRisk),
      aspects |-> <<"N", "NE", "E">>,
      description |-> getRiskDescription(MathMax(JsAdd(highRisk, -1), lowRisk))
                      \o " Evaluate conditions carefully on steep north-facing terrain."],
     [elevation |-> "Below 2000m",
      risk |-> lowRisk,
      aspects |-> IF JsGe(lowRisk, 3) THEN <<"All">> ELSE <<"S", "SE", "SW">>,
      description |-> getRiskDescription(lowRisk)
                      \o (IF JsGe(lowRisk, 2)
                          THEN " Warming temperatures may cause wet snow instabilities on sunny slopes."
                          ELSE "")] >>

\* Each summaries[k] is given by its first sentence.
generateDetailedSummary(overall, high, low) ==
  LET summaries ==
        CASE overall = 1 -> "Low avalanche risk across all elevations."
          [] overall = 2 -> "Moderate avalanche risk."
          [] overall = 4 -> "High avalanche risk."
          [] overall = 5 -> "Very high avalanche risk."
          [] OTHER -> "Considerable avalanche risk."
      elevated ==
        IF JsGt(high, low)
        THEN " Conditions are particularly dangerous at higher elevations (above 2500m) where the risk is elevated to level "
             \o NumText(high) \o "."
        ELSE ""
  IN summaries \o elevated
     \o " Always check the official Meteo-France bulletin before heading into the backcountry."

generateProblems(riskLevel) ==
  LET windSlab ==
        IF JsGe(riskLevel, 2)
        THEN << [type |-> "Wind Slab",
                 severity |-> IF JsGe(riskLevel, 3) THEN "High" ELSE "Moderate",
                 distribution |-> IF JsGe(riskLevel, 3) THEN "Widespread above 2200m"
                                  ELSE "Specific lee slopes above 2500m",
                 sensitivity |-> IF JsGe(riskLevel, 4) THEN "Very High - remote triggering possible"
                                 ELSE IF JsGe(riskLevel, 3) THEN "High - easily triggered by skiers"
                                 ELSE "Moderate - triggering possible with high additional load",
                 icon |-> "wind"] >>
        ELSE <<>>
      weakLayers ==
        IF JsGe(riskLevel, 3)
        THEN << [type |-> "Persistent Weak Layers",
                 severity |-> IF JsGe(riskLevel, 4) THEN "High" ELSE "Moderate",
                 distribution |-> "Specific aspects, particularly shaded slopes",
                 sensitivity |-> IF JsGe(riskLevel, 4)
                                 THEN "High - persistent problem requiring careful evaluation"
                                 ELSE "Moderate - identifiable with snowpack tests",
                 icon |-> "warning"] >>
        ELSE <<>>
      wetSnow ==
        IF JsGe(riskLevel, 2)
        THEN << [type |-> "Wet Snow",
                 severity |-> "Low to Moderate",
                 distribution |-> "Sunny aspects below 2500m, especially in afternoon",
                 sensitivity |-> "Increases with warming temperatures and solar radiation",
                 icon |-> "drop"] >>
        ELSE <<>>
      problems == windSlab \o weakLayers \o wetSnow
  IN IF Len(problems) > 0 THEN problems
     ELSE << [type |-> "Generally stable conditions",
              severity |-> "Low",
              distribution |-> "Most terrain",
              sensitivity |-> "Low",
              icon |-> "check"] >>

generateSnowpackInfo(riskLevel) ==
  [recentSnow |-> IF JsGe(riskLevel, 3) THEN "Significant recent snowfall (20-40cm in last 48h)"
                  ELSE IF JsGe(riskLevel, 2) THEN "Moderate recent snowfall (10-20cm)"
                  ELSE "Minimal recent snowfall",
   totalDepth |-> "Depth varies by elevation: 180-220cm at 2500m, less at lower elevations",
   quality |-> IF JsGe(riskLevel, 3)
               THEN "Wind-affected and variable at higher elevations. Surface hoar and weak layers present in some areas."
               ELSE IF JsGe(riskLevel, 2) THEN "Generally well-bonded with some wind effect at ridgelines"
               ELSE "Well-consolidated and stable across most elevations"]

generateWeatherInfo(riskLevel) ==
  [forecast |-> IF JsGe(riskLevel, 3) THEN "Unsettled conditions with periods of snowfall. Strong winds at altitude."
                ELSE IF JsGe(riskLevel, 2) THEN "Variable conditions with occasional snow showers possible"
                ELSE "Generally stable weather with improving conditions",
   temperature |-> "Cold at altitude (-8C to -12C at 2500m). Gradual warming trend expected in coming days.",
   wind |-> IF JsGe(riskLevel, 3) THEN "Strong NW winds 60-80 km/h at ridgelines, causing significant snow transport"
            ELSE IF JsGe(riskLevel, 2) THEN "Moderate winds 30-50 km/h, some snow transport at exposed areas"
            ELSE "Light to moderate winds, minimal snow transport"]

generateTendency(riskLevel) ==
  IF JsGe(riskLevel, 4)
  THEN "Risk will remain high over the next 24-48 hours. Gradual improvement expected after mid-week as snowfall decreases and snowpack begins to consolidate."
  ELSE IF JsGe(riskLevel, 3)
  THEN "Risk will gradually decrease over the next 48 hours as new snow consolidates and winds diminish. Continue to exercise caution and monitor conditions closely."
  ELSE IF JsGe(riskLevel, 2)
  THEN "Conditions expected to gradually improve as recent snow stabilizes. Continued monitoring recommended, especially on steep shaded slopes."
  ELSE "Conditions expected to remain generally stable. Standard precautions apply for backcountry travel."

(***************************************************************************)
(* Forecast rules of revision 3 (lines 975-1034).  A weather number of the *)
(* upstream service is held as a count of hundredths, so 20.5 is 2050.     *)
(***************************************************************************)
\* The hundredths in a unit.
Scale == 100

\* Math.round(x) of a number held in hundredths: the nearest integer, a half
\* going up.
MathRound(x) == IF IsNaN(x) THEN NaN ELSE (x + 50) \div Scale

\* Math.round(x * 10) / 10 of a number held in hundredths, in tenths.
RoundTenths(x) == IF IsNaN(x) THEN NaN ELSE (x + 5) \div 10

\* descriptions[code] || 'Unknown', for the codes the model's upstream sends.
getWeatherDescription(code) ==
  CASE code = 0 -> "Clear sky"
    [] code = 3 -> "Overcast"
    [] code = 73 -> "Moderate snow"
    [] code = 75 -> "Heavy snow"
    [] OTHER -> "Unknown"

\* baseAltitude + Math.round(maxTemp * lapseRate)
estimateFreezingLevel(maxTemp) ==
  IF IsNaN(maxTemp) THEN NaN ELSE 1500 + ((maxTemp * 150 + 50) \div Scale)

\* An estimate in which strong wind raises a low risk only.
estimateAvalancheRisk_WindRaisesLowOnly(snowfall, windSpeed, temp) ==
  LET bySnow == IF JsGt(snowfall, 20 * Scale) THEN "considerable"
                ELSE IF JsGt(snowfall, 10 * Scale) THEN "moderate"
                ELSE "low"
      byWind == IF JsGt(windSpeed, 40 * Scale) /\ bySnow = "low" THEN "moderate"
                ELSE bySnow
  IN IF JsGt(temp, 0) /\ JsGt(snowfall, 5 * Scale) /\ byWind = "low" THEN "moderate"
     ELSE byWind

\* Lines 1015-1034.
estimateAvalancheRisk(snowfall, windSpeed, temp) ==
  LET bySnow == IF JsGt(snowfall, 20 * Scale) THEN "considerable"
                ELSE IF JsGt(snowfall, 10 * Scale) THEN "moderate"
                ELSE "low"
      byWind == IF JsGt(windSpeed, 40 * Scale)
                THEN IF bySnow = "moderate" THEN "considerable"
                     ELSE IF bySnow = "low" THEN "moderate"
                     ELSE bySnow
                ELSE bySnow
  IN IF JsGt(temp, 0) /\ JsGt(snowfall, 5 * Scale) /\ byWind = "low" THEN "moderate"
     ELSE byWind

(***************************************************************************)
(* Text: a scanned text is a sequence of one-character strings.            *)
(***************************************************************************)
\* String.prototype.toLowerCase on the letters the scanned texts use.
LowerChar(c) ==
  CASE c = "F" -> "f" [] c = "O" -> "o" [] c = "R" -> "r" [] c = "T" -> "t"
    [] c = "M" -> "m" [] c = "A" -> "a" [] c = "Q" -> "q" [] c = "U" -> "u"
    [] c = "L" -> "l" [] c = "I" -> "i" [] c = "B" -> "b" [] c = "E" -> "e"
    [] c = "E'" -> "e'"
    [] OTHER -> c

toLowerCase(text) == [i \in 1..Len(text) |-> LowerChar(text[i])]

\* String.prototype.includes: pat occurs in text as a contiguous run.
Includes(text, pat) ==
  \E i \in 1..(Len(text) - Len(pat) + 1) : SubSeq(text, i, i + Len(pat) - 1) = pat

(***************************************************************************)
(* Time: instants are milliseconds since the epoch.                        *)
(***************************************************************************)
\* 24 * 60 * 60 * 1000, the day added to Date.now() for validUntil.
DayMs == 24 * 60 * 60 * 1000

\* Date.prototype.toISOString: one text per instant.
toISOString(t) == "ISO:" \o ToString(t)

\* Date.prototype.toLocaleDateString('en-GB'): the calendar day of the instant.
toLocaleDateString(t) == "day:" \o ToString(t \div DayMs)

\* new Date(text).toLocaleDateString('en-GB') for the date texts of the
\* documents: a text that is no date gives 'Invalid Date'.
LocaleDateOfText(text) ==
  CASE text = "2026-01-15T16:00:00" -> "15/01/2026"
    [] OTHER -> "Invalid Date"

(***************************************************************************)
(* Risk rules of revision 2 (lines 568-693).                               *)
(***************************************************************************)
\* descriptions[level] || descriptions[3]
translateRiskDescription(level) ==
  CASE level = 1 -> "Generally safe conditions. Natural avalanches unlikely."
    [] level = 2 -> "Heightened avalanche conditions on specific terrain. Careful evaluation needed."
    [] level = 4 -> "Very dangerous conditions. Travel in avalanche terrain not recommended."
    [] level = 5 -> "Extraordinary avalanche situation. Avoid all avalanche terrain."
    [] OTHER -> "Dangerous avalanche conditions. Careful snowpack evaluation required."

\* translations[frenchType.toLowerCase()] || frenchType, on lower-case tokens.
translateProblemType(frenchType) ==
  CASE frenchType = "neige_ventee" -> "Wind Slab"
    [] frenchType = "plaques" -> "Wind Slab"
    [] frenchType = "neige_fraiche" -> "New Snow"
    [] frenchType = "neige_humide" -> "Wet Snow"
    [] frenchType = "sous-couche" -> "Persistent Weak Layers"
    [] frenchType = "fond" -> "Glide Avalanches"
    [] OTHER -> frenchType

\* icons[type.toLowerCase()] || the warning sign, on lower-case tokens.
getProblemIcon(type) ==
  CASE type = "neige_ventee" -> "wind"
    [] type = "plaques" -> "wind"
    [] type = "neige_fraiche" -> "snow"
    [] type = "neige_humide" -> "drop"
    [] type = "sous-couche" -> "warning"
    [] type = "fond" -> "mountain"
    [] OTHER -> "warning"

\* summaries[riskLevel] || summaries[3]; each text given by its first sentence.
generateSummary(riskLevel) ==
  CASE riskLevel = 1 -> "Low avalanche risk."
    [] riskLevel = 2 -> "Moderate avalanche risk."
    [] riskLevel = 4 -> "High avalanche risk."
    [] riskLevel = 5 -> "Very high avalanche risk."
    [] OTHER -> "Considerable avalanche risk."

getDefaultElevationBands(riskLevel) ==
  << [elevation |-> "Above 2500m",
      risk |-> MathMin(JsAdd(riskLevel, 1), 5),
      aspects |-> <<"N", "NE", "E", "NW">>,
      description |-> translateRiskDescription(MathMin(JsAdd(riskLevel, 1), 5))],
     [elevation |-> "2000m - 2500m",
      risk |-> riskLevel,
      aspects |-> <<"N", "NE", "E">>,
      description |-> translateRiskDescription(riskLevel)],
     [elevation |-> "Below 2000m",
      risk |-> MathMax(JsAdd(riskLevel, -1), 1),
      aspects |-> <<"S", "SE", "SW", "W">>,
      description |-> translateRiskDescription(MathMax(JsAdd(riskLevel, -1), 1))] >>

getDefaultProblems(riskLevel) ==
  (IF JsGe(riskLevel, 3)
   THEN << [type |-> "Wind Slab",
            severity |-> "High",
            distribution |-> "Widespread above 2200m",
            sensitivity |-> "High - easily triggered",
            icon |-> "wind"] >>
   ELSE <<>>)
  \o
  (IF JsGe(riskLevel, 2)
   THEN << [type |-> "Persistent Weak Layers",
            severity |-> IF JsGe(riskLevel, 3) THEN "Moderate" ELSE "Low",
            distribution |-> "Specific aspects (N, NE, E)",
            sensitivity |-> "Moderate - careful snowpack tests needed",
            icon |-> "warning"] >>
   ELSE <<>>)

(***************************************************************************)
(* Upstream documents.  An XML bulletin is the record of what the parsers  *)
(* read from it: the RISQUE attributes LOC1 and LOC2 (<<>> when the        *)
(* attribute or the element is absent or empty), the text of the elements  *)
(* ("" when absent) and the TypeAvalanche tokens.  A page is the text of   *)
(* its risk classes and of its summary classes.                            *)
(***************************************************************************)
XmlDoc(loc1, loc2, date, comment, types) ==
  [LOC1 |-> loc1, LOC2 |-> loc2, DateValidite |-> date, RisqueComment |-> comment,
   TendanceComment |-> "", TypeAvalanche |-> types,
   NeigeFraiche24h |-> "", Enneigement |-> "", QualiteNeige |-> "",
   PrevisionMeteo |-> "", Temperature |-> "", Vent |-> ""]

\* A response body cheerio.load cannot take (no text): the load throws.
Unloadable == [unloadable |-> TRUE]

Page(riskText, resume) == [riskText |-> riskText, resume |-> resume]

Source == "https://meteofrance.com/meteo-montagne/alpes-du-nord/risques-avalanche"

(***************************************************************************)
(* Revision 3: the structured bulletin and the fallback bulletin.          *)
(***************************************************************************)
\* Lines 1058-1084: the bulletin built from the XML document at instant t.
StructuredBulletin(doc, t) ==
  LET loc1 == ParseInt(AttrOr(doc.LOC1, <<"3">>))
      loc2 == ParseInt(AttrOr(doc.LOC2, <<"2">>))
      overallRisk == MathMax(loc1, loc2)
      dateValidite == doc.DateValidite
      validUntil == IF dateValidite # "" THEN LocaleDateOfText(dateValidite)
                    ELSE toLocaleDateString(t + DayMs)
  IN [massif |-> "Vanoise",
      updateTime |-> toISOString(t),
      validUntil |-> validUntil,
      overallRisk |-> overallRisk,
      summary |-> generateDetailedSummary(overallRisk, loc1, loc2),
      elevationBands |-> generateElevationBands(loc1, loc2),
      problems |-> generateProblems(overallRisk),
      snowpack |-> generateSnowpackInfo(overallRisk),
      weather |-> generateWeatherInfo(overallRisk),
      tendency |-> generateTendency(overallRisk),
      source |-> Source,
      dataSource |-> "Meteo-France XML (Risk levels) + Enhanced descriptions",
      note |-> "Risk levels from Meteo-France. Visit the official bulletin for complete details including snowpack analysis and weather forecast."]

getFallbackBulletin(t) ==
  [massif |-> "Vanoise",
   updateTime |-> toISOString(t),
   validUntil |-> toLocaleDateString(t + DayMs),
   overallRisk |-> 3,
   summary |-> "Unable to fetch current data from Meteo-France. Please visit the official bulletin for today's avalanche forecast. As a general guideline, exercise considerable caution in the backcountry.",
   elevationBands |-> generateElevationBands(3, 2),
   problems |-> generateProblems(3),
   snowpack |-> [recentSnow |-> "Check Meteo-France for current snowfall data",
                 totalDepth |-> "Variable by location and elevation",
                 quality |-> "Refer to official bulletin for snowpack analysis"],
   weather |-> [forecast |-> "See Meteo-France for current mountain weather forecast",
                temperature |-> "Refer to official forecast",
                wind |-> "Check current conditions on Meteo-France"],
   tendency |-> "Monitor daily bulletins from Meteo-France for trend information",
   source |-> Source,
   dataSource |-> "Fallback - Unable to connect to Meteo-France",
   error |-> "Connection to Meteo-France failed. Please check the official bulletin.",
   note |-> "This is fallback data. Always consult the official Meteo-France bulletin before backcountry travel."]

(***************************************************************************)
(* Revision 2: the XML parser, the page scraper and the mock bulletin.     *)
(***************************************************************************)
\* x || dflt without the default.
TextOr_NoDefault(x, dflt) == x

\* x || dflt on text.
TextOr(x, dflt) == IF x = "" THEN dflt ELSE x

\* Lines 604-613, the revision 2 definition that reads the XML document.
extractSnowpackInfo(doc) ==
  [recentSnow |-> TextOr(doc.NeigeFraiche24h, "See current conditions"),
   totalDepth |-> TextOr(doc.Enneigement, "Variable by elevation"),
   quality |-> TextOr(doc.QualiteNeige, "Wind affected at altitude")]

extractWeatherInfo(doc) ==
  [forecast |-> TextOr(doc.PrevisionMeteo, "Check Meteo-France for current forecast"),
   temperature |-> TextOr(doc.Temperature, "Variable"),
   wind |-> TextOr(doc.Vent, "Check current conditions")]

parseMeteoFranceXML(doc, t) ==
  LET riskLevel == ParseInt(AttrOr(doc.LOC1, <<"3">>))
      dateValidite == TextOr(doc.DateValidite, toISOString(t))
      risqueComment == doc.RisqueComment
      loc1 == ParseInt(AttrOr(doc.LOC1, <<"3">>))
      loc2 == ParseInt(AttrOr(doc.LOC2, <<"2">>))
      elevationBands ==
        << [elevation |-> "Above 2500m", risk |-> loc1,
            aspects |-> <<"N", "NE", "E", "NW">>,
            description |-> translateRiskDescription(loc1)],
           [elevation |-> "2000m - 2500m", risk |-> MathMax(JsAdd(loc1, -1), loc2),
            aspects |-> <<"N", "NE", "E">>,
            description |-> translateRiskDescription(MathMax(JsAdd(loc1, -1), loc2))],
           [elevation |-> "Below 2000m", risk |-> loc2,
            aspects |-> <<"S", "SE", "SW", "W">>,
            description |-> translateRiskDescription(loc2)] >>
      listed ==
        [i \in 1..Len(doc.TypeAvalanche) |->
           [type |-> translateProblemType(doc.TypeAvalanche[i]),
            severity |-> IF JsGe(riskLevel, 3) THEN "High" ELSE "Moderate",
            distribution |-> IF JsGe(riskLevel, 4) THEN "Widespread" ELSE "Specific areas",
            sensitivity |-> IF JsGe(riskLevel, 3) THEN "High - easily triggered" ELSE "Moderate",
            icon |-> getProblemIcon(doc.TypeAvalanche[i])]]
      problems ==
        IF Len(listed) = 0 /\ JsGe(riskLevel, 3)
        THEN << [type |-> "Wind Slab",
                 severity |-> "High",
                 distribution |-> "Widespread above 2200m",
                 sensitivity |-> "High - easily triggered",
                 icon |-> "wind"] >>
        ELSE listed
  IN [massif |-> "Vanoise",
      updateTime |-> toISOString(t),
      validUntil |-> dateValidite,
      overallRisk |-> riskLevel,
      summary |-> TextOr(risqueComment, generateSummary(riskLevel)),
      elevationBands |-> elevationBands,
      problems |-> IF Len(problems) > 0 THEN problems ELSE getDefaultProblems(riskLevel),
      snowpack |-> extractSnowpackInfo(doc),
      weather |-> extractWeatherInfo(doc),
      tendency |-> TextOr(doc.TendanceComment, "Conditions expected to stabilize gradually"),
      source |-> Source,
      dataSource |-> "Meteo-France XML"]

\* A scan that tests the lowest level first.
ScanRiskLevel_LowestFirst(riskText) ==
  IF Includes(riskText, <<"1">>) \/ Includes(riskText, <<"f", "a", "i", "b", "l", "e">>) THEN 1
  ELSE IF Includes(riskText, <<"2">>) \/ Includes(riskText, <<"l", "i", "m", "i", "t", "e'">>) THEN 2
  ELSE IF Includes(riskText, <<"3">>) \/ Includes(riskText, <<"m", "a", "r", "q", "u", "e'">>) THEN 3
  ELSE IF Includes(riskText, <<"4">>) \/ Includes(riskText, <<"f", "o", "r", "t">>) THEN 4
  ELSE 3

\* Lines 528-534: the risk level scanned from the lower-cased risk text.  The
\* one-character string "e'" is the letter e with an acute accent.
ScanRiskLevel(riskText) ==
  IF Includes(riskText, <<"4">>) \/ Includes(riskText, <<"f", "o", "r", "t">>) THEN 4
  ELSE IF Includes(riskText, <<"3">>) \/ Includes(riskText, <<"m", "a", "r", "q", "u", "e'">>) THEN 3
  ELSE IF Includes(riskText, <<"2">>) \/ Includes(riskText, <<"l", "i", "m", "i", "t", "e'">>) THEN 2
  ELSE IF Includes(riskText, <<"1">>) \/ Includes(riskText, <<"f", "a", "i", "b", "l", "e">>) THEN 1
  ELSE 3

\* Revision 1, lines 125-135: extractOverallRisk on the lower-cased text.
extractOverallRisk(riskText) ==
  IF Includes(riskText, <<"f", "o", "r", "t">>) \/ Includes(riskText, <<"4">>) THEN 4
  ELSE IF Includes(riskText, <<"m", "a", "r", "q", "u", "e'">>) \/ Includes(riskText, <<"3">>) THEN 3
  ELSE IF Includes(riskText, <<"l", "i", "m", "i", "t", "e'">>) \/ Includes(riskText, <<"2">>) THEN 2
  ELSE IF Includes(riskText, <<"f", "a", "i", "b", "l", "e">>) \/ Includes(riskText, <<"1">>) THEN 1
  ELSE 3

\* Lines 623-633: the summary texts the pages carry hold none of the
\* replaced French terms, except the one named here.
translateText(text) ==
  IF text = "risque fort" THEN "high risk" ELSE text

scrapeMeteoFranceWeb(page, t) ==
  LET riskLevel == ScanRiskLevel(toLowerCase(page.riskText))
      summary == TextOr(page.resume, generateSummary(riskLevel))
  IN [massif |-> "Vanoise",
      updateTime |-> toISOString(t),
      validUntil |-> toLocaleDateString(t + DayMs),
      overallRisk |-> riskLevel,
      summary |-> TextOr(translateText(summary), generateSummary(riskLevel)),
      elevationBands |-> getDefaultElevationBands(riskLevel),
      problems |-> getDefaultProblems(riskLevel),
      snowpack |-> [recentSnow |-> "Check Meteo-France for details",
                    totalDepth |-> "Variable by elevation",
                    quality |-> "Wind affected at altitude"],
      weather |-> [forecast |-> "See Meteo-France for current forecast",
                   temperature |-> "Variable",
                   wind |-> "Check current conditions"],
      tendency |-> "Monitor daily updates from Meteo-France",
      source |-> Source,
      dataSource |-> "Meteo-France Web Scraping"]

getMockAvalancheBulletin(t) ==
  [massif |-> "Vanoise",
   updateTime |-> toISOString(t),
   validUntil |-> toLocaleDateString(t + DayMs),
   overallRisk |-> 3,
   summary |-> "Recent snowfall and wind transport have created unstable wind slabs above 2200m.",
   elevationBands |-> getDefaultElevationBands(3),
   problems |-> getDefaultProblems(3),
   snowpack |-> [recentSnow |-> "30 cm in last 48 hours",
                 totalDepth |-> "185 cm at 2500m",
                 quality |-> "Wind affected above 2200m, powder in sheltered areas"],
   weather |-> [forecast |-> "Light snow showers continuing. Strong NW winds decreasing.",
                temperature |-> "Cold at altitude, slight warming trend from tomorrow",
                wind |-> "NW 60-80 km/h at ridges, decreasing to 40-50 km/h"],
   tendency |-> "Risk will gradually decrease over next 48 hours as snowpack consolidates and winds decrease.",
   source |-> Source,
   dataSource |-> "Mock Data (Scraping Failed)",
   isMockData |-> TRUE]

\* Lines 439-440: the mock bulletin with its error text set.
MockWithError(t) ==
  [error |-> "Using mock data - scraping temporarily unavailable"]
    @@ getMockAvalancheBulletin(t)


(***************************************************************************)
(* The warnings resources.                                                 *)
(***************************************************************************)
WarningsSource == "https://vigilance.meteofrance.fr/fr/savoie"

\* Revision 3, lines 1274-1280.
WarningsResource(t) ==
  [department |-> "Savoie",
   updateTime |-> toISOString(t),
   alerts |-> <<>>,
   source |-> WarningsSource,
   note |-> "Check Meteo-France Vigilance for current weather warnings"]

\* Revision 2, lines 717-746: one alert per listed element that has a title,
\* and the default alert when there is none.
ScrapedWarnings(page, t) ==
  LET titles == page.titles
      alerts == [i \in 1..Len(titles) |->
                   [type |-> "avalanche", level |-> "orange", levelNumber |-> 3,
                    title |-> titles[i],
                    description |-> "Check Meteo-France for details"]]
  IN [department |-> "Savoie",
      updateTime |-> toISOString(t),
      alerts |-> IF Len(alerts) > 0 THEN alerts
                 ELSE << [type |-> "avalanche", level |-> "orange", levelNumber |-> 3,
                          title |-> "Avalanche Risk - Level 3",
                          description |-> "Considerable avalanche risk in mountain areas. Check Meteo-France for current details."] >>,
      source |-> WarningsSource]

\* Revision 2, lines 787-795.
getMockWeatherWarnings(t) ==
  [department |-> "Savoie",
   updateTime |-> toISOString(t),
   alerts |-> <<>>,
   source |-> WarningsSource,
   isMockData |-> TRUE]

(***************************************************************************)
(* Revision 3: the extended forecast (lines 854-972).  A query holds the   *)
(* text of lat and lon ("" when absent) and the characters of days (<<>>   *)
(* when absent).  An upstream response is the record of its daily and      *)
(* hourly arrays; a response without them is a record without the fields.  *)
(***************************************************************************)
\* x || dflt on a number: 0 and NaN read as dflt.
NumOr(x, dflt) == IF IsNaN(x) \/ x = 0 THEN dflt ELSE x

\* Lines 856-864: latitude, longitude, forecastDays and cacheKey.
ForecastLocals(query) ==
  LET latitude == TextOr(query.lat, "45.4")
      longitude == TextOr(query.lon, "6.57")
      forecastDays == MathMin(NumOr(ParseInt(query.days), 7), 16)
  IN [latitude |-> latitude, longitude |-> longitude, forecastDays |-> forecastDays,
      cacheKey |-> latitude \o "_" \o longitude \o "_" \o NumText(forecastDays)]

\* array[i] with i counted from 0: undefined past the end, which Math.round
\* and the estimates read as NaN.
NumAt(array, i) == IF (i + 1) \in DOMAIN array THEN array[i + 1] ELSE NaN

TextAt(array, i) == IF (i + 1) \in DOMAIN array THEN array[i + 1] ELSE Undefined

\* toLocaleDateString('en-US', {weekday: 'long'}) of the dates the upstream
\* sends.
dayName(time) ==
  CASE time = "2026-01-15" -> "Thursday"
    [] time = "2026-01-16" -> "Friday"
    [] time = "2026-01-17" -> "Saturday"
    [] OTHER -> "Invalid Date"

\* toLocaleDateString('en-US', {weekday: 'short'}) of the same dates.
dayShort(time) ==
  CASE time = "2026-01-15" -> "Thu"
    [] time = "2026-01-16" -> "Fri"
    [] time = "2026-01-17" -> "Sat"
    [] OTHER -> "Invalid Date"

\* toLocaleTimeString('en-US', {hour, minute, hour12: false}) of the hours
\* the upstream sends.
hourText(time) ==
  CASE time = "2026-01-15T00:00" -> "00:00"
    [] time = "2026-01-15T03:00" -> "03:00"
    [] OTHER -> "Invalid Date"

\* Lines 929-943: the entries of hours startHour, startHour + 3, ... below
\* startHour + 24 and below the length of the hourly array.
RECURSIVE HourlyFrom(_, _, _)
HourlyFrom(hourly, h, endHour) ==
  IF h < endHour /\ h < Len(hourly.time)
  THEN << [time |-> hourText(TextAt(hourly.time, h)),
           temp |-> MathRound(NumAt(hourly.temperature_2m, h)),
           snow |-> RoundTenths(NumAt(hourly.snowfall, h)),
           wind |-> MathRound(NumAt(hourly.windspeed_10m, h)),
           weatherCode |-> NumAt(hourly.weathercode, h)] >>
       \o HourlyFrom(hourly, h + 3, endHour)
  ELSE <<>>

\* Lines 903-927 and 929-943: the entry of day i, counted from 0.
DayData(data, i) ==
  [date |-> TextAt(data.daily.time, i),
   dayName |-> dayName(TextAt(data.daily.time, i)),
   dayShort |-> dayShort(TextAt(data.daily.time, i)),
   tempHigh |-> MathRound(NumAt(data.daily.temperature_2m_max, i)),
   tempLow |-> MathRound(NumAt(data.daily.temperature_2m_min, i)),
   snowfall |-> RoundTenths(NumAt(data.daily.snowfall_sum, i)),
   precipitation |-> RoundTenths(NumAt(data.daily.precipitation_sum, i)),
   windSpeed |-> MathRound(NumAt(data.daily.windspeed_10m_max, i)),
   windGusts |-> MathRound(NumAt(data.daily.windgusts_10m_max, i)),
   weatherCode |-> NumAt(data.daily.weathercode, i),
   conditions |-> getWeatherDescription(NumAt(data.daily.weathercode, i)),
   freezingLevel |-> estimateFreezingLevel(NumAt(data.daily.temperature_2m_max, i)),
   avalancheRisk |-> estimateAvalancheRisk(NumAt(data.daily.snowfall_sum, i),
                                           NumAt(data.daily.windspeed_10m_max, i),
                                           NumAt(data.daily.temperature_2m_max, i)),
   hourly |-> HourlyFrom(data.hourly, i * 24, i * 24 + 24)]

\* Lines 901-946: the loop runs for i = 0 .. forecastDays - 1, not at all
\* when forecastDays is below 1.
DailyForecast(data, forecastDays) ==
  IF IsNaN(forecastDays) \/ forecastDays < 1 THEN <<>>
  ELSE [k \in 1..forecastDays |-> DayData(data, k - 1)]

\* The loop body reads data.daily.time[i] and data.hourly.time.length: it
\* throws a TypeError in its first round when either array is missing.
ReshapeThrows(data, forecastDays) ==
  /\ ~IsNaN(forecastDays) /\ forecastDays >= 1
  /\ ("daily" \notin DOMAIN data \/ "hourly" \notin DOMAIN data)

\* Lines 948-958.
ForecastData(locals, data, t) ==
  [location |-> [latitude |-> locals.latitude, longitude |-> locals.longitude,
                 name |-> "Meribel"],
   updateTime |-> toISOString(t),
   forecastDays |-> locals.forecastDays,
   daily |-> DailyForecast(data, locals.forecastDays),
   source |-> "Open-Meteo API",
   timezone |-> IF "timezone" \in DOMAIN data THEN data.timezone ELSE Undefined]

\* The first n of the days the upstream knows, with their first hours.
OpenMeteoDays ==
  << [time |-> "2026-01-15", tmax |-> -480, tmin |-> -1250, snow |-> 2536,
      rain |-> 2536, wind |-> 1049, gusts |-> 3050, code |-> 75],
     [time |-> "2026-01-16", tmax |-> 120, tmin |-> -300, snow |-> 549,
      rain |-> 600, wind |-> 4550, gusts |-> 7000, code |-> 73],
     [time |-> "2026-01-17", tmax |-> 250, tmin |-> -100, snow |-> 0,
      rain |-> 0, wind |-> 1500, gusts |-> 2000, code |-> 0] >>

\* The response of the upstream to a request for n days: the arrays of the
\* days it knows, up to n, and four hours of hourly values.
OpenMeteo(n) ==
  LET m == IF IsNaN(n) \/ n < 0 THEN 0
           ELSE IF n > Len(OpenMeteoDays) THEN Len(OpenMeteoDays) ELSE n
  IN [daily |-> [time |-> [i \in 1..m |-> OpenMeteoDays[i].time],
                 temperature_2m_max |-> [i \in 1..m |-> OpenMeteoDays[i].tmax],
                 temperature_2m_min |-> [i \in 1..m |-> OpenMeteoDays[i].tmin],
                 snowfall_sum |-> [i \in 1..m |-> OpenMeteoDays[i].snow],
                 precipitation_sum |-> [i \in 1..m |-> OpenMeteoDays[i].rain],
                 windspeed_10m_max |-> [i \in 1..m |-> OpenMeteoDays[i].wind],
                 windgusts_10m_max |-> [i \in 1..m |-> OpenMeteoDays[i].gusts],
                 weathercode |-> [i \in 1..m |-> OpenMeteoDays[i].code]],
      hourly |-> [time |-> <<"2026-01-15T00:00", "2026-01-15T01:00",
                             "2026-01-15T02:00", "2026-01-15T03:00">>,
                  temperature_2m |-> <<-1250, -1300, -1349, -1350>>,
                  snowfall |-> <<104, 105, 0, 96>>,
                  windspeed_10m |-> <<1049, 1050, 1100, 1151>>,
                  weathercode |-> <<75, 75, 73, 73>>],
      timezone |-> "Europe/Paris"]

\* A response body without the daily and hourly arrays.
NoForecast == [reason |-> "Cannot initialize WeatherVariable"]

(***************************************************************************)
(* The bounds of the model and the inputs the requests draw from.          *)
(***************************************************************************)
\* Inbound requests in one run.
MaxReq == 2

\* Steps of the clock in one run.
MaxTicks == 2

Reqs == 1..MaxReq

\* The documents the primary source serves: in-range risks, out-of-range
\* risks, a risk that is no number beside an absent one, and a document with
\* no RISQUE attributes that lists its date, comment and problem types.
XmlDocs ==
  { XmlDoc(<<"4">>, <<"2">>, "", "", <<>>),
    XmlDoc(<<"6">>, <<"0">>, "", "", <<>>),
    XmlDoc(<<"x">>, <<>>, "", "", <<>>),
    XmlDoc(<<>>, <<>>, "2026-01-15T16:00:00", "Plaques friables", <<"plaques">>) }

\* The pages the secondary source serves.
Pages ==
  { Page(<<"R", "i", "s", "q", "u", "e", " ", "m", "a", "r", "q", "u", "e'">>, ""),
    Page(<<"F", "o", "r", "t">>, "risque fort"),
    Page(<<>>, "Neige stable") }

\* The queries of the forecast requests: the default place for one day,
\* another latitude for one day, and the default place for two days.
Queries ==
  { [lat |-> "", lon |-> "", days |-> <<"1">>],
    [lat |-> "46.0", lon |-> "", days |-> <<"1">>],
    [lat |-> "", lon |-> "", days |-> <<"2">>] }

\* The responses of Open-Meteo: the arrays of one or of two days, or a body
\* without them.
ForecastResponses == {OpenMeteo(1), OpenMeteo(2), NoForecast}

\* A vigilance page: the titles of its alert elements.
VigilancePages == { [titles |-> <<>>], [titles |-> <<"Vigilance orange avalanches">>] }

(***************************************************************************)
(* State.                                                                  *)
(***************************************************************************)
VARIABLES
  rev,     \* the revision that runs: 2 or 3
  now,     \* Date.now()
  ticks,   \* the steps the clock has made
  cache,   \* the cache object: one entry per resource
  reqs,    \* the inbound requests: where each handler stands and what it sent
  rule     \* the risk-rule evaluation under check: its inputs and its result

vars == <<rev, now, ticks, cache, reqs, rule>>

\* CACHE_DURATION = 6 * 60 * 60 * 1000
CACHE_DURATION == 6 * 60 * 60 * 1000

\* A null timestamp.  Every read of a timestamp is a truthiness test (lines
\* 849, 1301-1303), which null and 0 both fail, and Date.now() is never 0.
NullTimestamp == 0

\* A null payload, and the body of a request not answered yet.
NullData == [isNull |-> TRUE]

EmptyEntry == [data |-> NullData, timestamp |-> NullTimestamp]

\* A validity test that trusts no entry.
isCacheValid_NeverValid(cacheEntry, t) == FALSE

\* A validity test that never lets a populated entry expire.
isCacheValid_NeverExpires(cacheEntry, t) ==
  ~(cacheEntry.data = NullData \/ cacheEntry.timestamp = NullTimestamp)

\* A validity test that still accepts an entry as old as the cache duration.
isCacheValid_Inclusive(cacheEntry, t) ==
  IF cacheEntry.data = NullData \/ cacheEntry.timestamp = NullTimestamp THEN FALSE
  ELSE (t - cacheEntry.timestamp) <= CACHE_DURATION

\* Lines 848-851 (and 371-374), evaluated at instant t.
isCacheValid(cacheEntry, t) ==
  IF cacheEntry.data = NullData \/ cacheEntry.timestamp = NullTimestamp THEN FALSE
  ELSE (t - cacheEntry.timestamp) < CACHE_DURATION

\* The age recorded for a request whose cache entry was never written.
NoAge == 0 - 1

\* The locals of a handler that has none.
NoLocals == [cacheKey |-> ""]

\* A request before it arrives.
IdleReq ==
  [ep |-> "none", pc |-> "idle", status |-> 0, body |-> NullData, sent |-> 0,
   calls |-> <<>>, failed |-> <<>>, age |-> NoAge, hit |-> FALSE, wrote |-> FALSE,
   answered |-> 0, locals |-> NoLocals]

Init ==
  /\ rev \in {2, 3}
  /\ now = 1
  /\ ticks = 0
  /\ cache = [avalanche |-> EmptyEntry, warnings |-> EmptyEntry,
              extendedForecast |-> EmptyEntry]
  /\ reqs = [r \in Reqs |-> IdleReq]
  /\ rule = [fn |-> "none"]

\* Requests arrive in the order of their numbers.
CanArrive(r) ==
  /\ reqs[r].pc = "idle"
  /\ IF r = 1 THEN TRUE ELSE reqs[r - 1].pc # "idle"

\* The age of a cache entry when a handler arrives: now - timestamp.
AgeOf(entry) == IF entry = EmptyEntry THEN NoAge ELSE now - entry.timestamp

\* The request record as the handler starts: the endpoint and the age of its
\* cache entry.
Arrived(r, ep) ==
  [reqs[r] EXCEPT !.ep = ep,
                  !.age = IF ep \in DOMAIN cache THEN AgeOf(cache[ep]) ELSE NoAge]

\* res.status(status).json(body): the response is sent and the handler ends.
Respond(q, status, body) ==
  [q EXCEPT !.pc = "done", !.status = status, !.body = body, !.sent = @ + 1,
            !.answered = now]

\* An await that joins the call another handler already has in flight for
\* the stage instead of issuing its own.
Await_JoinsInFlight(q, stage) ==
  IF \E p \in Reqs : reqs[p].pc = stage
  THEN [q EXCEPT !.pc = stage]
  ELSE [q EXCEPT !.pc = stage, !.calls = Append(@, stage)]

\* axios.get(...) awaited: the handler is suspended on the named stage.
Await(q, stage) == [q EXCEPT !.pc = stage, !.calls = Append(@, stage)]

\* A cache write that leaves an entry alone while it is still fresh.
Put_UnlessFresh(slot, payload) ==
  IF cache[slot] # EmptyEntry /\ now - cache[slot].timestamp < CACHE_DURATION
  THEN cache
  ELSE [cache EXCEPT ![slot] = [data |-> payload, timestamp |-> now]]

\* A cache write that assigns the payload and keeps the timestamp the slot had.
Put_KeepsTimestamp(slot, payload) ==
  [cache EXCEPT ![slot] = [data |-> payload, timestamp |-> cache[slot].timestamp]]

\* A cache write that leaves the timestamp out.
Put_NoTimestamp(slot, payload) ==
  [cache EXCEPT ![slot] = [data |-> payload, timestamp |-> NullTimestamp]]

\* cache.<slot> = { data: payload, timestamp: Date.now() }
Put(slot, payload) == [cache EXCEPT ![slot] = [data |-> payload, timestamp |-> now]]

\* Time passes.
Tick(d) ==
  /\ ticks < MaxTicks
  /\ now' = now + d
  /\ ticks' = ticks + 1
  /\ UNCHANGED <<rev, cache, reqs, rule>>

\* The steps the clock makes: a millisecond, and a millisecond less than the
\* cache duration, so that ages just below, at and above it all occur.
TickSteps == {1, CACHE_DURATION - 1}

(***************************************************************************)
(* GET /api/avalanche/vanoise, revision 3 (lines 1037-1098).               *)
(***************************************************************************)
\* A catch that surfaces the failure, as the forecast handler's does.
AvalancheCatch3_Surfaces(q) ==
  Respond(q, 500, [error |-> "Failed to fetch avalanche data", message |-> "timeout"])

\* A catch that answers with whatever the cache slot still holds.
AvalancheCatch3_Stale(q) == Respond(q, 200, cache.avalanche.data)

\* Lines 1093-1097: the outer catch answers with the fallback bulletin.
AvalancheCatch3(q) == Respond(q, 200, getFallbackBulletin(now))

\* A catch that also resets the whole cache.
AvalancheCatchCache3_ResetsAll == [slot \in DOMAIN cache |-> EmptyEntry]

\* A catch that stores the fallback bulletin it answers with.
AvalancheCatchCache3_Stores ==
  [cache EXCEPT !.avalanche = [data |-> getFallbackBulletin(now), timestamp |-> now]]

\* Lines 1093-1097: the outer catch assigns nothing to the cache.
AvalancheCatchCache3 == cache

\* Lines 1039-1056: the cache check, then the request to the XML source.
Avalanche3Arrive(r) ==
  /\ rev = 3
  /\ CanArrive(r)
  /\ reqs' = [reqs EXCEPT ![r] =
       IF isCacheValid(cache.avalanche, now)
       THEN Respond([Arrived(r, "avalanche") EXCEPT !.hit = TRUE], 200, cache.avalanche.data)
       ELSE Await(Arrived(r, "avalanche"), "xml")]
  /\ UNCHANGED <<rev, now, ticks, cache, rule>>

\* Lines 1058-1087: the XML source answered with doc.  A body that cannot be
\* loaded throws, the inner catch rethrows (1089-1092) and the outer answers.
Avalanche3XmlResolve(r, doc) ==
  /\ rev = 3
  /\ reqs[r].ep = "avalanche" /\ reqs[r].pc = "xml"
  /\ IF doc = Unloadable
     THEN /\ reqs' = [reqs EXCEPT ![r] =
                AvalancheCatch3([reqs[r] EXCEPT !.failed = Append(@, "xml")])]
          /\ cache' = AvalancheCatchCache3
     ELSE /\ cache' = Put("avalanche", StructuredBulletin(doc, now))
          /\ reqs' = [reqs EXCEPT ![r] =
                Respond([reqs[r] EXCEPT !.wrote = TRUE], 200, StructuredBulletin(doc, now))]
  /\ UNCHANGED <<rev, now, ticks, rule>>

\* Lines 1048-1056 reject (network error, timeout): 1089-1092, then 1093-1097.
Avalanche3XmlReject(r) ==
  /\ rev = 3
  /\ reqs[r].ep = "avalanche" /\ reqs[r].pc = "xml"
  /\ reqs' = [reqs EXCEPT ![r] =
        AvalancheCatch3([reqs[r] EXCEPT !.failed = Append(@, "xml")])]
  /\ cache' = AvalancheCatchCache3
  /\ UNCHANGED <<rev, now, ticks, rule>>

(***************************************************************************)
(* GET /api/avalanche/vanoise, revision 2 (lines 377-443).                 *)
(***************************************************************************)
\* An outer catch whose bulletin keeps the label of the stage tried last.
AvalancheCatch2_ScrapingLabel(q) ==
  Respond(q, 200, [MockWithError(now) EXCEPT !.dataSource = "Meteo-France Web Scraping"])

\* Lines 435-442: the outer catch answers with the mock bulletin.
AvalancheCatch2(q) == Respond(q, 200, MockWithError(now))

\* Lines 435-442: the outer catch assigns nothing to the cache.
AvalancheCatchCache2 == cache

\* An inner catch that answers with the mock bulletin and goes on to the page
\* source all the same.
AvalancheXmlCatch2_AnswersAndGoesOn(q) ==
  Await([q EXCEPT !.failed = Append(@, "xml"), !.status = 200,
                  !.body = MockWithError(now), !.sent = @ + 1], "web")

\* An inner catch that asks the primary source again, without end.
AvalancheXmlCatch2_Loops(q) ==
  [q EXCEPT !.pc = "xml", !.failed = <<"xml">>, !.calls = <<"xml", "xml">>]

\* An inner catch that asks the primary source again instead of moving on.
AvalancheXmlCatch2_AsksAgain(q) ==
  IF Len(q.calls) < 2 THEN Await([q EXCEPT !.failed = Append(@, "xml")], "xml")
  ELSE Respond([q EXCEPT !.failed = Append(@, "xml")], 200, MockWithError(now))

\* An inner catch that gives up at once instead of trying the web page.
AvalancheXmlCatch2_GivesUp(q) ==
  Respond([q EXCEPT !.failed = Append(@, "xml")], 200, MockWithError(now))

\* Lines 411-423: the inner catch requests the web page.
AvalancheXmlCatch2(q) == Await([q EXCEPT !.failed = Append(@, "xml")], "web")

\* Lines 380-397.
Avalanche2Arrive(r) ==
  /\ rev = 2
  /\ CanArrive(r)
  /\ reqs' = [reqs EXCEPT ![r] =
       IF isCacheValid(cache.avalanche, now)
       THEN Respond([Arrived(r, "avalanche") EXCEPT !.hit = TRUE], 200, cache.avalanche.data)
       ELSE Await(Arrived(r, "avalanche"), "xml")]
  /\ UNCHANGED <<rev, now, ticks, cache, rule>>

\* Lines 399-410: the XML source answered with doc.
Avalanche2XmlResolve(r, doc) ==
  /\ rev = 2
  /\ reqs[r].ep = "avalanche" /\ reqs[r].pc = "xml"
  /\ IF doc = Unloadable
     THEN /\ reqs' = [reqs EXCEPT ![r] = AvalancheXmlCatch2(reqs[r])]
          /\ UNCHANGED cache
     ELSE /\ cache' = Put("avalanche", parseMeteoFranceXML(doc, now))
          /\ reqs' = [reqs EXCEPT ![r] =
                Respond([reqs[r] EXCEPT !.wrote = TRUE], 200, parseMeteoFranceXML(doc, now))]
  /\ UNCHANGED <<rev, now, ticks, rule>>

\* Lines 389-397 reject.
Avalanche2XmlReject(r) ==
  /\ rev = 2
  /\ reqs[r].ep = "avalanche" /\ reqs[r].pc = "xml"
  /\ reqs' = [reqs EXCEPT ![r] = AvalancheXmlCatch2(reqs[r])]
  /\ UNCHANGED <<rev, now, ticks, cache, rule>>

\* Lines 425-433: the web page answered.
Avalanche2WebResolve(r, page) ==
  /\ rev = 2
  /\ reqs[r].ep = "avalanche" /\ reqs[r].pc = "web"
  /\ IF page = Unloadable
     THEN /\ reqs' = [reqs EXCEPT ![r] =
                AvalancheCatch2([reqs[r] EXCEPT !.failed = Append(@, "web")])]
          /\ cache' = AvalancheCatchCache2
     ELSE /\ cache' = Put("avalanche", scrapeMeteoFranceWeb(page, now))
          /\ reqs' = [reqs EXCEPT ![r] =
                Respond([reqs[r] EXCEPT !.wrote = TRUE], 200, scrapeMeteoFranceWeb(page, now))]
  /\ UNCHANGED <<rev, now, ticks, rule>>

\* Lines 415-423 reject.
Avalanche2WebReject(r) ==
  /\ rev = 2
  /\ reqs[r].ep = "avalanche" /\ reqs[r].pc = "web"
  /\ reqs' = [reqs EXCEPT ![r] =
        AvalancheCatch2([reqs[r] EXCEPT !.failed = Append(@, "web")])]
  /\ cache' = AvalancheCatchCache2
  /\ UNCHANGED <<rev, now, ticks, rule>>

(***************************************************************************)
(* GET /api/warnings/savoie.                                               *)
(***************************************************************************)
\* Revision 3, lines 1268-1283: no upstream request; the resource is built
\* and stored at once.
Warnings3Arrive(r) ==
  /\ rev = 3
  /\ CanArrive(r)
  /\ IF isCacheValid(cache.warnings, now)
     THEN /\ reqs' = [reqs EXCEPT ![r] =
                Respond([Arrived(r, "warnings") EXCEPT !.hit = TRUE], 200, cache.warnings.data)]
          /\ UNCHANGED cache
     ELSE /\ cache' = Put("warnings", WarningsResource(now))
          /\ reqs' = [reqs EXCEPT ![r] =
                Respond([Arrived(r, "warnings") EXCEPT !.wrote = TRUE], 200, WarningsResource(now))]
  /\ UNCHANGED <<rev, now, ticks, rule>>

\* A catch that answers with the failure.
WarningsCatch2_Surfaces(q) ==
  Respond(q, 500, [error |-> "Failed to fetch warnings", message |-> "timeout"])

\* Revision 2, lines 754-757.
WarningsCatch2(q) == Respond(q, 200, getMockWeatherWarnings(now))

\* Revision 2, lines 698-713.
Warnings2Arrive(r) ==
  /\ rev = 2
  /\ CanArrive(r)
  /\ reqs' = [reqs EXCEPT ![r] =
       IF isCacheValid(cache.warnings, now)
       THEN Respond([Arrived(r, "warnings") EXCEPT !.hit = TRUE], 200, cache.warnings.data)
       ELSE Await(Arrived(r, "warnings"), "page")]
  /\ UNCHANGED <<rev, now, ticks, cache, rule>>

\* Revision 2, lines 715-753: the vigilance page answered.
Warnings2Resolve(r, page) ==
  /\ rev = 2
  /\ reqs[r].ep = "warnings" /\ reqs[r].pc = "page"
  /\ IF page = Unloadable
     THEN /\ reqs' = [reqs EXCEPT ![r] =
                WarningsCatch2([reqs[r] EXCEPT !.failed = Append(@, "page")])]
          /\ UNCHANGED cache
     ELSE /\ cache' = Put("warnings", ScrapedWarnings(page, now))
          /\ reqs' = [reqs EXCEPT ![r] =
                Respond([reqs[r] EXCEPT !.wrote = TRUE], 200, ScrapedWarnings(page, now))]
  /\ UNCHANGED <<rev, now, ticks, rule>>

\* Revision 2, lines 705-713 reject.
Warnings2Reject(r) ==
  /\ rev = 2
  /\ reqs[r].ep = "warnings" /\ reqs[r].pc = "page"
  /\ reqs' = [reqs EXCEPT ![r] =
        WarningsCatch2([reqs[r] EXCEPT !.failed = Append(@, "page")])]
  /\ UNCHANGED <<rev, now, ticks, cache, rule>>

(***************************************************************************)
(* GET /api/forecast/extended, revision 3 (lines 854-972).                 *)
(***************************************************************************)
\* A catch that answers with whatever the forecast slot holds.
ForecastCatch_ServesStale(q, message) == Respond(q, 200, cache.extendedForecast.data)

\* A catch that answers with an empty forecast instead of the failure.
ForecastCatch_Absorbs(q, message) ==
  Respond(q, 200, [forecastDays |-> q.locals.forecastDays, daily |-> <<>>,
                   error |-> message])

\* Lines 965-971: the catch answers 500 with the message of the error.
ForecastCatch(q, message) ==
  Respond(q, 500, [error |-> "Failed to fetch extended forecast", message |-> message])

\* A cache test that ignores the stored key.
ForecastCached_AnyKey(cacheKey) == isCacheValid(cache.extendedForecast, now)

\* Line 865: the slot is fresh and holds the key of this request.
ForecastCached(cacheKey) ==
  IF isCacheValid(cache.extendedForecast, now)
  THEN cache.extendedForecast.cacheKey = cacheKey
  ELSE FALSE

\* Lines 856-897: the locals, the cache check, then the request to Open-Meteo.
ForecastArrive(r, query) ==
  /\ rev = 3
  /\ CanArrive(r)
  /\ LET q == [Arrived(r, "forecast") EXCEPT
                 !.locals = ForecastLocals(query),
                 !.age = AgeOf(cache.extendedForecast)]
     IN reqs' = [reqs EXCEPT ![r] =
          IF ForecastCached(q.locals.cacheKey)
          THEN Respond([q EXCEPT !.hit = TRUE], 200, cache.extendedForecast.data)
          ELSE Await(q, "meteo")]
  /\ UNCHANGED <<rev, now, ticks, cache, rule>>

\* Lines 899-963: Open-Meteo answered with data, which holds the number of
\* days asked for (forecast_days, line 895).  A body without the arrays
\* throws in the loop and the catch answers.
ForecastResolve(r, data) ==
  /\ rev = 3
  /\ reqs[r].ep = "forecast" /\ reqs[r].pc = "meteo"
  /\ "daily" \in DOMAIN data => Len(data.daily.time) = reqs[r].locals.forecastDays
  /\ IF ReshapeThrows(data, reqs[r].locals.forecastDays)
     THEN /\ reqs' = [reqs EXCEPT ![r] =
                ForecastCatch([reqs[r] EXCEPT !.failed = Append(@, "meteo")],
                              "Cannot read properties of undefined (reading 'time')")]
          /\ UNCHANGED cache
     ELSE /\ cache' = [cache EXCEPT !.extendedForecast =
                [data |-> ForecastData(reqs[r].locals, data, now),
                 timestamp |-> now,
                 cacheKey |-> reqs[r].locals.cacheKey]]
          /\ reqs' = [reqs EXCEPT ![r] =
                Respond([reqs[r] EXCEPT !.wrote = TRUE], 200,
                        ForecastData(reqs[r].locals, data, now))]
  /\ UNCHANGED <<rev, now, ticks, rule>>

\* Lines 873-897 reject (network error, timeout, HTTP error status).
ForecastReject(r) ==
  /\ rev = 3
  /\ reqs[r].ep = "forecast" /\ reqs[r].pc = "meteo"
  /\ reqs' = [reqs EXCEPT ![r] =
        ForecastCatch([reqs[r] EXCEPT !.failed = Append(@, "meteo")],
                      "timeout of 10000ms exceeded")]
  /\ UNCHANGED <<rev, now, ticks, cache, rule>>

(***************************************************************************)
(* GET /api/health (lines 1296-1306, 798-807) and GET / (1309-1320).       *)
(***************************************************************************)
\* The report without the test for a null timestamp.
HealthTime_NoNullTest(entry) == toISOString(entry.timestamp)

\* timestamp ? new Date(timestamp).toISOString() : null
HealthTime(entry) ==
  IF entry.timestamp # NullTimestamp THEN toISOString(entry.timestamp) ELSE Null

HealthBody ==
  [status |-> "ok",
   timestamp |-> toISOString(now),
   cache |-> IF rev = 3
             THEN [avalanche |-> HealthTime(cache.avalanche),
                   warnings |-> HealthTime(cache.warnings),
                   extendedForecast |-> HealthTime(cache.extendedForecast)]
             ELSE [avalanche |-> HealthTime(cache.avalanche),
                   warnings |-> HealthTime(cache.warnings)]]

Health(r) ==
  /\ CanArrive(r)
  /\ reqs' = [reqs EXCEPT ![r] = Respond(Arrived(r, "health"), 200, HealthBody)]
  /\ UNCHANGED <<rev, now, ticks, cache, rule>>

RootBody == [message |-> "Meribel Avalanche API", status |-> "running"]

Root(r) ==
  /\ CanArrive(r)
  /\ reqs' = [reqs EXCEPT ![r] = Respond(Arrived(r, "root"), 200, RootBody)]
  /\ UNCHANGED <<rev, now, ticks, cache, rule>>

(***************************************************************************)
(* The server.                                                             *)
(***************************************************************************)
Next ==
  \/ \E d \in TickSteps : Tick(d)
  \/ \E r \in Reqs : Avalanche3Arrive(r)
  \/ \E r \in Reqs, doc \in XmlDocs \cup {Unloadable} : Avalanche3XmlResolve(r, doc)
  \/ \E r \in Reqs : Avalanche3XmlReject(r)
  \/ \E r \in Reqs : Avalanche2Arrive(r)
  \/ \E r \in Reqs, doc \in XmlDocs \cup {Unloadable} : Avalanche2XmlResolve(r, doc)
  \/ \E r \in Reqs : Avalanche2XmlReject(r)
  \/ \E r \in Reqs, page \in Pages \cup {Unloadable} : Avalanche2WebResolve(r, page)
  \/ \E r \in Reqs : Avalanche2WebReject(r)
  \/ \E r \in Reqs : Warnings3Arrive(r)
  \/ \E r \in Reqs : Warnings2Arrive(r)
  \/ \E r \in Reqs, page \in VigilancePages \cup {Unloadable} : Warnings2Resolve(r, page)
  \/ \E r \in Reqs : Warnings2Reject(r)
  \/ \E r \in Reqs : Health(r)
  \/ \E r \in Reqs : Root(r)

Spec == Init /\ [][Next]_vars

(***************************************************************************)
(* The avalanche, warnings and forecast handlers when no outbound call     *)
(* stays pending for ever: one document, page and query of each kind, and  *)
(* a clock that steps by the cache duration.                               *)
(***************************************************************************)
LiveDocs == { XmlDoc(<<"4">>, <<"2">>, "", "", <<>>), Unloadable }

LivePages == { Page(<<"F", "o", "r", "t">>, "risque fort"), Unloadable }

LiveVigilancePages == { [titles |-> <<>>], Unloadable }

LiveQueries == { [lat |-> "", lon |-> "", days |-> <<"1">>] }

LiveResponses == {OpenMeteo(1), NoForecast}

\* The outbound call request r awaits resolves or is rejected, by an error
\* or by the 10-second timeout of the call (lines 1051, 392, 418, 708, 896).
Settles(r) ==
  \/ \E doc \in LiveDocs : Avalanche3XmlResolve(r, doc)
  \/ Avalanche3XmlReject(r)
  \/ \E doc \in LiveDocs : Avalanche2XmlResolve(r, doc)
  \/ Avalanche2XmlReject(r)
  \/ \E page \in LivePages : Avalanche2WebResolve(r, page)
  \/ Avalanche2WebReject(r)
  \/ \E page \in LiveVigilancePages : Warnings2Resolve(r, page)
  \/ Warnings2Reject(r)
  \/ \E data \in LiveResponses : ForecastResolve(r, data)
  \/ ForecastReject(r)

NextLive ==
  \/ Tick(CACHE_DURATION)
  \/ \E r \in Reqs : Avalanche3Arrive(r)
  \/ \E r \in Reqs : Avalanche2Arrive(r)
  \/ \E r \in Reqs : Warnings3Arrive(r)
  \/ \E r \in Reqs : Warnings2Arrive(r)
  \/ \E r \in Reqs, query \in LiveQueries : ForecastArrive(r, query)
  \/ \E r \in Reqs : Settles(r)

SpecLive == Init /\ [][NextLive]_vars /\ \A r \in Reqs : WF_vars(Settles(r))

(***************************************************************************)
(* The server of revision 3 under forecast traffic: forecast requests      *)
(* next to avalanche, warnings and health requests.                        *)
(***************************************************************************)
InitForecast ==
  /\ rev = 3
  /\ now = 1
  /\ ticks = 0
  /\ cache = [avalanche |-> EmptyEntry, warnings |-> EmptyEntry,
              extendedForecast |-> EmptyEntry]
  /\ reqs = [r \in Reqs |-> IdleReq]
  /\ rule = [fn |-> "none"]

\* The document the XML source serves next to forecast traffic.
ForecastPeerDocs == { XmlDoc(<<"4">>, <<"2">>, "", "", <<>>) }

NextForecast ==
  \/ \E d \in TickSteps : Tick(d)
  \/ \E r \in Reqs, query \in Queries : ForecastArrive(r, query)
  \/ \E r \in Reqs, data \in ForecastResponses : ForecastResolve(r, data)
  \/ \E r \in Reqs : ForecastReject(r)
  \/ \E r \in Reqs : Avalanche3Arrive(r)
  \/ \E r \in Reqs, doc \in ForecastPeerDocs : Avalanche3XmlResolve(r, doc)
  \/ \E r \in Reqs : Avalanche3XmlReject(r)
  \/ \E r \in Reqs : Warnings3Arrive(r)
  \/ \E r \in Reqs : Health(r)
  \/ \E r \in Reqs : Root(r)

SpecForecast == InitForecast /\ [][NextForecast]_vars

(***************************************************************************)
(* The risk rules on their own: the inputs are drawn at the start and one  *)
(* step applies one rule function to them.                                 *)
(***************************************************************************)
\* How far below 1 and above 5 the risk inputs range.
LevelSpan == 2

\* The risk inputs: the integers around the scale 1..5 and NaN, which
\* parseInt gives for an attribute that spells no number.
Levels == ((0 - LevelSpan)..(5 + LevelSpan)) \cup {NaN}

\* The attribute text that spells a risk input.
LevelAttr(n) ==
  IF IsNaN(n) THEN <<"x">>
  ELSE IF n < 0 THEN <<"-", Digits[(0 - n) + 1]>>
  ELSE IF n < 10 THEN <<Digits[n + 1]>>
  ELSE <<Digits[(n \div 10) + 1], Digits[(n % 10) + 1]>>

InitRules ==
  /\ rev \in {2, 3}
  /\ now = 1
  /\ ticks = 0
  /\ cache = [avalanche |-> EmptyEntry, warnings |-> EmptyEntry,
              extendedForecast |-> EmptyEntry]
  /\ reqs = [r \in Reqs |-> IdleReq]
  /\ \E level, high, low \in Levels :
       rule = [fn |-> "none", level |-> level, high |-> high, low |-> low]

\* The evaluation record once the rule function fn has given out.
Applied(fn, out) ==
  [fn |-> fn, level |-> rule.level, high |-> rule.high, low |-> rule.low, out |-> out]

\* The document whose RISQUE attributes spell the inputs.
RuleDoc == XmlDoc(LevelAttr(rule.high), LevelAttr(rule.low), "", "", <<>>)

RuleElevationBands ==
  /\ rev = 3 /\ rule.fn = "none"
  /\ rule' = Applied("generateElevationBands", generateElevationBands(rule.high, rule.low))
  /\ UNCHANGED <<rev, now, ticks, cache, reqs>>

RuleRiskDescription ==
  /\ rev = 3 /\ rule.fn = "none"
  /\ rule' = Applied("getRiskDescription", getRiskDescription(rule.level))
  /\ UNCHANGED <<rev, now, ticks, cache, reqs>>

RuleDetailedSummary ==
  /\ rev = 3 /\ rule.fn = "none"
  /\ rule' = Applied("generateDetailedSummary",
                     generateDetailedSummary(rule.level, rule.high, rule.low))
  /\ UNCHANGED <<rev, now, ticks, cache, reqs>>

RuleProblems ==
  /\ rev = 3 /\ rule.fn = "none"
  /\ rule' = Applied("generateProblems", generateProblems(rule.level))
  /\ UNCHANGED <<rev, now, ticks, cache, reqs>>

RuleSnowpackInfo ==
  /\ rev = 3 /\ rule.fn = "none"
  /\ rule' = Applied("generateSnowpackInfo", generateSnowpackInfo(rule.level))
  /\ UNCHANGED <<rev, now, ticks, cache, reqs>>

RuleWeatherInfo ==
  /\ rev = 3 /\ rule.fn = "none"
  /\ rule' = Applied("generateWeatherInfo", generateWeatherInfo(rule.level))
  /\ UNCHANGED <<rev, now, ticks, cache, reqs>>

RuleTendency ==
  /\ rev = 3 /\ rule.fn = "none"
  /\ rule' = Applied("generateTendency", generateTendency(rule.level))
  /\ UNCHANGED <<rev, now, ticks, cache, reqs>>

\* Lines 1058-1084 on the document that spells the inputs.
RuleStructuredBulletin ==
  /\ rev = 3 /\ rule.fn = "none"
  /\ rule' = Applied("StructuredBulletin", StructuredBulletin(RuleDoc, now))
  /\ UNCHANGED <<rev, now, ticks, cache, reqs>>

RuleDefaultElevationBands ==
  /\ rev = 2 /\ rule.fn = "none"
  /\ rule' = Applied("getDefaultElevationBands", getDefaultElevationBands(rule.level))
  /\ UNCHANGED <<rev, now, ticks, cache, reqs>>

RuleDefaultProblems ==
  /\ rev = 2 /\ rule.fn = "none"
  /\ rule' = Applied("getDefaultProblems", getDefaultProblems(rule.level))
  /\ UNCHANGED <<rev, now, ticks, cache, reqs>>

\* Lines 446-522 on the document that spells the inputs.
RuleParsedBulletin ==
  /\ rev = 2 /\ rule.fn = "none"
  /\ rule' = Applied("parseMeteoFranceXML", parseMeteoFranceXML(RuleDoc, now))
  /\ UNCHANGED <<rev, now, ticks, cache, reqs>>

NextRules ==
  \/ RuleElevationBands
  \/ RuleRiskDescription
  \/ RuleDetailedSummary
  \/ RuleProblems
  \/ RuleSnowpackInfo
  \/ RuleWeatherInfo
  \/ RuleTendency
  \/ RuleStructuredBulletin
  \/ RuleDefaultElevationBands
  \/ RuleDefaultProblems
  \/ RuleParsedBulletin

SpecRules == InitRules /\ [][NextRules]_vars

(***************************************************************************)
(* The keyword scan on its own: one step scans one text made of words.     *)
(***************************************************************************)
\* The longest scanned text, in words.
MaxWords == 2

\* The words a risk element may hold.  "Confort" and "2500m" hold a keyword
\* inside another word; "E'" is the capital letter E with an acute accent.
ScanWords ==
  << <<"f", "o", "r", "t">>,
     <<"F", "O", "R", "T">>,
     <<"C", "o", "n", "f", "o", "r", "t">>,
     <<"M", "a", "r", "q", "u", "e'">>,
     <<"L", "I", "M", "I", "T", "E'">>,
     <<"F", "a", "i", "b", "l", "e">>,
     <<"4">>, <<"3">>, <<"2", "5", "0", "0", "m">>, <<"1">>,
     <<"n", "e", "i", "g", "e">>,
     <<"r", "i", "s", "q", "u", "e">> >>

WordLists == UNION { [1..n -> 1..Len(ScanWords)] : n \in 0..MaxWords }

\* The text of the element: its words with a blank between them.
RECURSIVE JoinWords(_)
JoinWords(ws) ==
  IF ws = <<>> THEN <<>>
  ELSE IF Len(ws) = 1 THEN ScanWords[ws[1]]
  ELSE ScanWords[ws[1]] \o <<" ">> \o JoinWords(Tail(ws))

InitScan ==
  /\ rev \in {1, 2}
  /\ now = 1
  /\ ticks = 0
  /\ cache = [avalanche |-> EmptyEntry, warnings |-> EmptyEntry,
              extendedForecast |-> EmptyEntry]
  /\ reqs = [r \in Reqs |-> IdleReq]
  /\ rule = [fn |-> "none"]

\* Revision 2, lines 528-534, on the text of the risk elements.
RuleScanRiskLevel(ws) ==
  /\ rev = 2 /\ rule.fn = "none"
  /\ rule' = [fn |-> "ScanRiskLevel", words |-> ws,
              out |-> ScanRiskLevel(toLowerCase(JoinWords(ws)))]
  /\ UNCHANGED <<rev, now, ticks, cache, reqs>>

\* Revision 1, lines 125-135, on the text of the risk elements.
RuleExtractOverallRisk(ws) ==
  /\ rev = 1 /\ rule.fn = "none"
  /\ rule' = [fn |-> "extractOverallRisk", words |-> ws,
              out |-> extractOverallRisk(toLowerCase(JoinWords(ws)))]
  /\ UNCHANGED <<rev, now, ticks, cache, reqs>>

NextScan ==
  \/ \E ws \in WordLists : RuleScanRiskLevel(ws)
  \/ \E ws \in WordLists : RuleExtractOverallRisk(ws)

SpecScan == InitScan /\ [][NextScan]_vars

(***************************************************************************)
(* The forecast estimates on their own: one step applies one estimate to   *)
(* weather numbers of the upstream service.                                *)
(***************************************************************************)
\* Daily snowfall sums, in hundredths of a centimetre, around the thresholds
\* 5, 10 and 20, and NaN for a missing value.
SnowSamples == {0, 500, 550, 1000, 1001, 1500, 2000, 2001, 2500, NaN}

\* Daily maximum wind speeds, in hundredths of a km/h, around 40.
WindSamples == {0, 1000, 4000, 4001, 4500, NaN}

\* Daily maximum temperatures, in hundredths of a degree, around 0.
TempSamples == {-500, -1, 0, 1, 250}

InitEstimate ==
  /\ rev = 3
  /\ now = 1
  /\ ticks = 0
  /\ cache = [avalanche |-> EmptyEntry, warnings |-> EmptyEntry,
              extendedForecast |-> EmptyEntry]
  /\ reqs = [r \in Reqs |-> IdleReq]
  /\ rule = [fn |-> "none"]

RuleEstimateAvalancheRisk(snowfall, windSpeed, temp) ==
  /\ rule.fn = "none"
  /\ rule' = [fn |-> "estimateAvalancheRisk",
              snowfall |-> snowfall, windSpeed |-> windSpeed, temp |-> temp,
              out |-> estimateAvalancheRisk(snowfall, windSpeed, temp)]
  /\ UNCHANGED <<rev, now, ticks, cache, reqs>>

RuleEstimateFreezingLevel(temp) ==
  /\ rule.fn = "none"
  /\ rule' = [fn |-> "estimateFreezingLevel", temp |-> temp,
              out |-> estimateFreezingLevel(temp)]
  /\ UNCHANGED <<rev, now, ticks, cache, reqs>>

NextEstimate ==
  \/ \E snowfall \in SnowSamples, windSpeed \in WindSamples, temp \in TempSamples :
       RuleEstimateAvalancheRisk(snowfall, windSpeed, temp)
  \/ \E temp \in TempSamples : RuleEstimateFreezingLevel(temp)

SpecEstimate == InitEstimate /\ [][NextEstimate]_vars

(***************************************************************************)
(* The days parameter on its own: one step reads the locals of a query or  *)
(* reshapes the answer of the upstream to that query.                      *)
(***************************************************************************)
\* The longest text of the days parameter, in characters.
MaxDaysLen == 2

\* The characters of the days parameter.
DaysChars == <<"0", "1", "2", "6", "7", "-", "x">>

\* The texts of the days parameter; <<>> is the absent parameter.
DaysTexts ==
  UNION { { [i \in 1..n |-> DaysChars[f[i]]] : f \in [1..n -> 1..Len(DaysChars)] }
          : n \in 0..MaxDaysLen }

DaysQuery(days) == [lat |-> "", lon |-> "", days |-> days]

InitDays ==
  /\ rev = 3
  /\ now = 1
  /\ ticks = 0
  /\ cache = [avalanche |-> EmptyEntry, warnings |-> EmptyEntry,
              extendedForecast |-> EmptyEntry]
  /\ reqs = [r \in Reqs |-> IdleReq]
  /\ rule = [fn |-> "none"]

\* Lines 856-864.
RuleForecastLocals(days) ==
  /\ rule.fn = "none"
  /\ rule' = [fn |-> "ForecastLocals", days |-> days,
              out |-> ForecastLocals(DaysQuery(days))]
  /\ UNCHANGED <<rev, now, ticks, cache, reqs>>

\* Lines 856-954 when the upstream answers the request for forecastDays days.
RuleForecastData(days) ==
  /\ rule.fn = "none"
  /\ LET locals == ForecastLocals(DaysQuery(days))
         data == OpenMeteo(locals.forecastDays)
     IN /\ ~ReshapeThrows(data, locals.forecastDays)
        /\ rule' = [fn |-> "ForecastData", days |-> days,
                    out |-> ForecastData(locals, data, now)]
  /\ UNCHANGED <<rev, now, ticks, cache, reqs>>

NextDays ==
  \/ \E days \in DaysTexts : RuleForecastLocals(days)
  \/ \E days \in DaysTexts : RuleForecastData(days)

SpecDays == InitDays /\ [][NextDays]_vars

(***************************************************************************)
(* The page scraper on its own: one step scrapes two pages, one after the  *)
(* other.                                                                  *)
(***************************************************************************)
\* The texts of the risk elements of a page: none, or one of ScanWords.
ScrapeTexts == {<<>>} \cup { ScanWords[w] : w \in 1..Len(ScanWords) }

\* The texts of the summary element of a page: none, or a sentence.
ScrapeResumes == {"", "Neige stable", "risque fort"}

ScrapePages == { Page(riskText, resume) : riskText \in ScrapeTexts, resume \in ScrapeResumes }

InitScrape ==
  /\ rev = 2
  /\ now = 1
  /\ ticks = 0
  /\ cache = [avalanche |-> EmptyEntry, warnings |-> EmptyEntry,
              extendedForecast |-> EmptyEntry]
  /\ reqs = [r \in Reqs |-> IdleReq]
  /\ rule = [fn |-> "none"]

\* Lines 525-566 on two pages, the second a millisecond after the first.
RuleScrapeTwo(first, second) ==
  /\ rule.fn = "none"
  /\ rule' = [fn |-> "scrapeMeteoFranceWeb", first |-> first, second |-> second,
              out |-> <<scrapeMeteoFranceWeb(first, now),
                        scrapeMeteoFranceWeb(second, now + 1)>>]
  /\ UNCHANGED <<rev, now, ticks, cache, reqs>>

NextScrape == \E first, second \in ScrapePages : RuleScrapeTwo(first, second)

SpecScrape == InitScrape /\ [][NextScrape]_vars

(***************************************************************************)
(* Properties.                                                             *)
(***************************************************************************)
BulletinFields ==
  {"massif", "updateTime", "validUntil", "overallRisk", "summary", "elevationBands",
   "problems", "snowpack", "weather", "tendency", "source"}

IsBulletin(b) == BulletinFields \subseteq DOMAIN b

Avalanche(r) == reqs[r].ep = "avalanche"

Answered(r) == reqs[r].pc = "done"

\* C1: every avalanche request is either waiting on an upstream call or
\* answered, and every answer, after whatever failures, is HTTP 200 with a
\* Bulletin body.
C1_AlwaysOkBulletin ==
  \A r \in Reqs : Avalanche(r) =>
    /\ reqs[r].pc \in {"xml", "web", "done"}
    /\ Answered(r) => /\ reqs[r].status = 200
                      /\ IsBulletin(reqs[r].body)
                      /\ reqs[r].sent = 1

\* C1 witness: an avalanche request answered after every stage it tried failed.
C1_Witness ==
  \E r \in Reqs : /\ Avalanche(r) /\ Answered(r)
                  /\ reqs[r].failed # <<>>
                  /\ ~reqs[r].wrote
                  /\ reqs[r].status = 200

InSeq(x, seq) == \E i \in 1..Len(seq) : seq[i] = x

\* The provenance labels of the synthesized bulletins (lines 1261 and 782).
FallbackLabels ==
  {"Fallback - Unable to connect to Meteo-France", "Mock Data (Scraping Failed)"}

IsFallback(b) == "dataSource" \in DOMAIN b /\ b.dataSource \in FallbackLabels

\* An avalanche request that missed the cache.
Missed(r) == Avalanche(r) /\ ~reqs[r].hit

\* C2 as stated: on a miss the secondary source is requested exactly when the
\* primary stage failed, and the fallback is the answer exactly when the
\* primary and the secondary stage both failed.
C2_Original ==
  \A r \in Reqs : Missed(r) =>
    /\ InSeq("web", reqs[r].calls) <=> InSeq("xml", reqs[r].failed)
    /\ Answered(r) =>
         (IsFallback(reqs[r].body)
            <=> InSeq("xml", reqs[r].failed) /\ InSeq("web", reqs[r].failed))

\* C2 amended: the stages a miss runs are a prefix of primary, secondary.  In
\* revision 2 the secondary source is requested exactly when the primary stage
\* failed and the fallback is the answer exactly when both failed; revision 3
\* has no secondary stage, and the fallback is the answer exactly when the
\* primary stage failed.
C2_StagesInOrder ==
  \A r \in Reqs : Missed(r) =>
    /\ reqs[r].calls \in {<<"xml">>, <<"xml", "web">>}
    /\ rev = 2 =>
         /\ InSeq("web", reqs[r].calls) <=> InSeq("xml", reqs[r].failed)
         /\ Answered(r) =>
              (IsFallback(reqs[r].body)
                 <=> InSeq("xml", reqs[r].failed) /\ InSeq("web", reqs[r].failed))
    /\ rev = 3 =>
         /\ ~InSeq("web", reqs[r].calls)
         /\ Answered(r) => (IsFallback(reqs[r].body) <=> InSeq("xml", reqs[r].failed))

\* C2 witness: a revision 2 request whose primary stage failed and whose
\* secondary stage produced the answer.
C2_Witness ==
  \E r \in Reqs : /\ rev = 2 /\ Missed(r) /\ Answered(r)
                  /\ reqs[r].calls = <<"xml", "web">>
                  /\ reqs[r].failed = <<"xml">>
                  /\ ~IsFallback(reqs[r].body)

\* The resources whose handlers the idempotence property is about.
Cached == {"avalanche", "warnings"}

\* Request second arrives in this step, for the resource of request first,
\* which ran its acquisition and was answered less than the cache duration
\* ago; no other request is for that resource.
Successive(first, second) ==
  /\ first # second
  /\ reqs[first].ep \in Cached
  /\ reqs[first].pc = "done"
  /\ ~reqs[first].hit
  /\ reqs[second].pc = "idle"
  /\ reqs'[second].ep = reqs[first].ep
  /\ now - reqs[first].answered < CACHE_DURATION
  /\ \A q \in Reqs \ {first, second} : reqs[q].ep # reqs[first].ep

\* The second request is answered at once with the first one's payload and
\* makes no upstream call.
ServedAgain(first, second) ==
  /\ reqs'[second].pc = "done"
  /\ reqs'[second].calls = <<>>
  /\ reqs'[second].body = reqs[first].body
  /\ reqs'[second].status = reqs[first].status

FallbackAnswer(r) ==
  /\ reqs[r].ep = "avalanche"
  /\ reqs[r].pc # "done"
  /\ reqs'[r].pc = "done"
  /\ ~reqs'[r].hit
  /\ IsFallback(reqs'[r].body)

Expired(r) ==
  /\ reqs[r].ep \in Cached
  /\ reqs[r].age # NoAge
  /\ reqs[r].age >= CACHE_DURATION

\* The first upstream request of a handler: none in the revision 3 warnings
\* handler, which builds its resource without any request.
Primary(ep) ==
  IF ep = "avalanche" THEN <<"xml">> ELSE IF rev = 2 THEN <<"page">> ELSE <<>>

\* C5: a request that finds a populated entry whose age has reached the cache
\* duration is not served from the cache; it starts again from the primary
\* source, and the step in which it succeeds replaces the entry with the new
\* payload and the current time.
C5_ExpiredEntryRefetched ==
  [][\A r \in Reqs : Expired(r)' =>
       /\ ~reqs'[r].hit
       /\ IF Primary(reqs'[r].ep) = <<>>
          THEN reqs'[r].calls = <<>>
          ELSE reqs'[r].calls # <<>> /\ <<reqs'[r].calls[1]>> = Primary(reqs'[r].ep)
       /\ (reqs[r].pc # "done" /\ reqs'[r].pc = "done" /\ reqs'[r].wrote) =>
            /\ cache'[reqs'[r].ep] = [data |-> reqs'[r].body, timestamp |-> now]
            /\ reqs'[r].body.updateTime = toISOString(now)
            /\ now >= cache[reqs'[r].ep].timestamp]_vars

\* C5 witness: an avalanche request found an entry exactly as old as the cache
\* duration, asked the primary source again and replaced the entry.
C5_Witness ==
  \E r \in Reqs :
    /\ Avalanche(r) /\ Expired(r) /\ Answered(r)
    /\ reqs[r].calls = <<"xml">>
    /\ reqs[r].wrote
    /\ cache.avalanche = [data |-> reqs[r].body, timestamp |-> reqs[r].answered]

\* C6: a request is served from the cache exactly when its slot held an entry
\* and the entry's age, now - timestamp, was strictly below the cache duration
\* of six hours.
C6_HitIffFresh ==
  /\ CACHE_DURATION = 21600000
  /\ \A r \in Reqs : reqs[r].ep \in Cached =>
       (reqs[r].hit <=> (reqs[r].age # NoAge /\ reqs[r].age < CACHE_DURATION))

\* C6 witness: a request missed on a populated entry exactly as old as the
\* cache duration and went to the upstream source.
C6_Witness ==
  \E r \in Reqs :
    /\ reqs[r].ep \in Cached
    /\ reqs[r].age = CACHE_DURATION /\ ~reqs[r].hit /\ reqs[r].calls # <<>>
    /\ cache[reqs[r].ep] # EmptyEntry

\* An entry one millisecond younger than the cache duration is served.
C6_YoungerServed ==
  \E r \in Reqs :
    /\ reqs[r].ep \in Cached
    /\ reqs[r].age = CACHE_DURATION - 1 /\ reqs[r].hit /\ Answered(r)

\* An avalanche request answered after every stage it ran had failed.
AllFailed(r) ==
  /\ Avalanche(r) /\ Answered(r) /\ ~reqs[r].hit
  /\ reqs[r].failed = reqs[r].calls

\* The synthesized bulletin of the running revision, built at instant t.
Synthesized(t) == IF rev = 3 THEN getFallbackBulletin(t) ELSE MockWithError(t)

\* C7: when every source has failed the avalanche answer is a Bulletin with
\* overallRisk 3, a summary that is not empty, exactly 3 elevation bands and a
\* fallback provenance label, and it is the same bulletin whichever way the
\* stages failed: the synthesized one of the instant of the answer.
C7_FallbackDeterminism ==
  \A r \in Reqs : AllFailed(r) =>
    /\ IsBulletin(reqs[r].body)
    /\ reqs[r].body.overallRisk = 3
    /\ reqs[r].body.summary # ""
    /\ Len(reqs[r].body.elevationBands) = 3
    /\ IsFallback(reqs[r].body)
    /\ reqs[r].body = Synthesized(reqs[r].answered)

\* C7 witness: a request that found an expired entry in the slot, saw every
\* stage fail and was answered with the synthesized bulletin, not the entry.
C7_Witness ==
  \E r \in Reqs :
    /\ AllFailed(r)
    /\ reqs[r].calls # <<>>
    /\ Expired(r)
    /\ IsFallback(reqs[r].body)
    /\ reqs[r].body.overallRisk = 3

\* The risk scale.
InScale(x) == x \in 1..5

IsNumber(x) == ~IsNaN(x)

BandNames == <<"Above 2500m", "2000m - 2500m", "Below 2000m">>

\* Exactly three bands, ordered high, mid, low altitude.
ThreeBands(bands) ==
  /\ Len(bands) = 3
  /\ \A i \in 1..3 : bands[i].elevation = BandNames[i]

\* The risks do not increase as the elevation decreases.
NonIncreasing(bands) ==
  /\ JsGe(bands[1].risk, bands[2].risk)
  /\ JsGe(bands[2].risk, bands[3].risk)

BandBuilders == {"generateElevationBands", "getDefaultElevationBands"}

BulletinBuilders == {"StructuredBulletin", "parseMeteoFranceXML"}

\* The inputs of the band builder that was applied are on the risk scale.
BuilderInScale ==
  IF rule.fn = "generateElevationBands" THEN InScale(rule.high) /\ InScale(rule.low)
  ELSE InScale(rule.level)

\* C8 as stated: for inputs in 1..5 the band builders return three bands whose
\* risks do not increase as the elevation decreases, and in every bulletin
\* built from an upstream document with zone risks in 1..5 the low band's
\* risk is at most the high band's.
C8_Original ==
  /\ (rule.fn \in BandBuilders /\ BuilderInScale) =>
       ThreeBands(rule.out) /\ NonIncreasing(rule.out)
  /\ (rule.fn \in BulletinBuilders /\ InScale(rule.high) /\ InScale(rule.low)) =>
       /\ ThreeBands(rule.out.elevationBands)
       /\ JsGe(rule.out.elevationBands[1].risk, rule.out.elevationBands[3].risk)

\* C8 amended: for inputs in 1..5 the band builders return three bands ordered
\* high, mid, low altitude; the bands of generateElevationBands do not
\* increase as the elevation decreases exactly when the low input is at most
\* the high input, those of getDefaultElevationBands never increase; and a
\* bulletin built from numeric zone risks has a low band at most its high band
\* exactly when the LOC2 risk is at most the LOC1 risk.
C8_BandsFollowInputs ==
  /\ (rule.fn = "generateElevationBands" /\ BuilderInScale) =>
       /\ ThreeBands(rule.out)
       /\ NonIncreasing(rule.out) <=> rule.low <= rule.high
  /\ (rule.fn = "getDefaultElevationBands" /\ BuilderInScale) =>
       ThreeBands(rule.out) /\ NonIncreasing(rule.out)
  /\ (rule.fn \in BulletinBuilders /\ IsNumber(rule.high) /\ IsNumber(rule.low)) =>
       /\ ThreeBands(rule.out.elevationBands)
       /\ JsGe(rule.out.elevationBands[1].risk, rule.out.elevationBands[3].risk)
            <=> rule.low <= rule.high

\* C8 witness: generateElevationBands(2, 4) gave a middle band of risk 4 under
\* a high band of risk 2.
C8_Witness ==
  /\ rule.fn = "generateElevationBands"
  /\ rule.high = 2 /\ rule.low = 4
  /\ rule.out[1].risk = 2 /\ rule.out[2].risk = 4 /\ rule.out[3].risk = 4

\* C9 as stated: for any integer inputs every band the builders return, and
\* every band of a bulletin built from the upstream document, has a risk in
\* 1..5.
C9_Original ==
  /\ (rule.fn = "generateElevationBands" /\ IsNumber(rule.high) /\ IsNumber(rule.low)) =>
       \A i \in 1..Len(rule.out) : InScale(rule.out[i].risk)
  /\ (rule.fn = "getDefaultElevationBands" /\ IsNumber(rule.level)) =>
       \A i \in 1..Len(rule.out) : InScale(rule.out[i].risk)
  /\ (rule.fn \in BulletinBuilders /\ IsNumber(rule.high) /\ IsNumber(rule.low)) =>
       \A i \in 1..Len(rule.out.elevationBands) : InScale(rule.out.elevationBands[i].risk)

\* The input is a number off the risk scale.
OffScale(x) == IsNumber(x) /\ ~InScale(x)

\* C10 as stated: for every level outside 1..5 each rule function returns
\* what it returns for level 3.
C10_Original ==
  OffScale(rule.level) =>
    /\ rule.fn = "getRiskDescription" => rule.out = getRiskDescription(3)
    /\ rule.fn = "generateDetailedSummary" =>
         rule.out = generateDetailedSummary(3, rule.high, rule.low)
    /\ rule.fn = "generateProblems" => rule.out = generateProblems(3)
    /\ rule.fn = "generateSnowpackInfo" => rule.out = generateSnowpackInfo(3)
    /\ rule.fn = "generateWeatherInfo" => rule.out = generateWeatherInfo(3)
    /\ rule.fn = "generateTendency" => rule.out = generateTendency(3)

\* The level whose result a threshold rule gives for an input off the scale.
Nearest(level) == IF IsNumber(level) /\ level > 5 THEN 5 ELSE 1

\* C10 amended: for a level outside 1..5 the description and the summary,
\* which look the level up in a table, return the entry of level 3; the
\* problems, snowpack, weather and tendency rules, which compare the level
\* with thresholds, return their level 5 result above 5 and their level 1
\* result below 1 or for NaN.
C10_OffScaleLevels ==
  ~InScale(rule.level) =>
    /\ rule.fn = "getRiskDescription" => rule.out = getRiskDescription(3)
    /\ rule.fn = "generateDetailedSummary" =>
         rule.out = generateDetailedSummary(3, rule.high, rule.low)
    /\ rule.fn = "generateProblems" => rule.out = generateProblems(Nearest(rule.level))
    /\ rule.fn = "generateSnowpackInfo" =>
         rule.out = generateSnowpackInfo(Nearest(rule.level))
    /\ rule.fn = "generateWeatherInfo" =>
         rule.out = generateWeatherInfo(Nearest(rule.level))
    /\ rule.fn = "generateTendency" => rule.out = generateTendency(Nearest(rule.level))

\* C10 witness: generateProblems(0) gave the single stable-conditions entry,
\* not the three problems of level 3.
C10_Witness ==
  /\ rule.fn = "generateProblems"
  /\ rule.level = 0
  /\ Len(rule.out) = 1
  /\ rule.out[1].type = "Generally stable conditions"
  /\ Len(generateProblems(3)) = 3

\* C11 as stated: a bulletin built from a document with numeric zone risks
\* high and low has overallRisk max(high, low), a high band of risk high, a
\* mid band of risk max(high - 1, low) and a low band of risk low.
C11_Original ==
  (rule.fn \in BulletinBuilders /\ IsNumber(rule.high) /\ IsNumber(rule.low)) =>
    /\ rule.out.overallRisk = (IF rule.high >= rule.low THEN rule.high ELSE rule.low)
    /\ rule.out.elevationBands[1].risk = rule.high
    /\ rule.out.elevationBands[2].risk =
         (IF rule.high - 1 >= rule.low THEN rule.high - 1 ELSE rule.low)
    /\ rule.out.elevationBands[3].risk = rule.low

\* The larger of two numbers.
Larger(a, b) == IF a >= b THEN a ELSE b

\* C11 amended: a bulletin built from a document with numeric zone risks high
\* and low has a high band of risk high, a mid band of risk max(high - 1, low)
\* and a low band of risk low; its overallRisk is max(high, low) in revision
\* 3 and the high zone risk alone in the parser of revision 2.
C11_MaxRuleByRevision ==
  (rule.fn \in BulletinBuilders /\ IsNumber(rule.high) /\ IsNumber(rule.low)) =>
    /\ rule.out.elevationBands[1].risk = rule.high
    /\ rule.out.elevationBands[2].risk = Larger(rule.high - 1, rule.low)
    /\ rule.out.elevationBands[3].risk = rule.low
    /\ rule.fn = "StructuredBulletin" =>
         rule.out.overallRisk = Larger(rule.high, rule.low)
    /\ rule.fn = "parseMeteoFranceXML" => rule.out.overallRisk = rule.high

\* C11 witness: zone risks 4 and 2 gave overall 4 and a mid band of 3.
C11_Witness ==
  /\ rule.fn = "StructuredBulletin"
  /\ rule.high = 4 /\ rule.low = 2
  /\ rule.out.overallRisk = 4
  /\ rule.out.elevationBands[2].risk = 3

\* The level each of ScanWords spells, 0 for a word that holds no keyword.
WordLevel == <<4, 4, 4, 3, 2, 1, 4, 3, 2, 1, 0, 0>>

\* The highest level a keyword of the scanned words spells, 0 when none does.
RECURSIVE HighestLevel(_)
HighestLevel(ws) ==
  IF ws = <<>> THEN 0
  ELSE LET rest == HighestLevel(Tail(ws))
       IN IF WordLevel[ws[1]] >= rest THEN WordLevel[ws[1]] ELSE rest

\* C12: the scanned level is the highest level whose digit or adjective
\* occurs in the text, in any letter case and also inside a longer word, and
\* it is 3 when no keyword occurs.
C12_HighestKeywordWins ==
  rule.fn \in {"ScanRiskLevel", "extractOverallRisk"} =>
    rule.out = (IF HighestLevel(rule.words) = 0 THEN 3 ELSE HighestLevel(rule.words))

\* C12 witness: the text "risque Marque'" scanned to 3 in revision 2.
C12_Witness ==
  /\ rule.fn = "ScanRiskLevel"
  /\ rule.words = <<12, 4>>
  /\ rule.out = 3

WarningsFields == {"department", "updateTime", "alerts", "source"}

IsWarningsResource(b) == WarningsFields \subseteq DOMAIN b

\* C13: every warnings request is either waiting on the vigilance page or
\* answered, every answer is HTTP 200 with a warnings resource, and an answer
\* given after the fetch or its processing failed has an empty alerts list.
C13_WarningsNeverError ==
  \A r \in Reqs : reqs[r].ep = "warnings" =>
    /\ reqs[r].pc \in {"page", "done"}
    /\ Answered(r) =>
         /\ reqs[r].status = 200
         /\ reqs[r].sent = 1
         /\ IsWarningsResource(reqs[r].body)
         /\ reqs[r].failed # <<>> => reqs[r].body.alerts = <<>>

\* C13 witness: a warnings request answered after the page fetch failed while
\* the slot held a scraped resource with alerts.
C13_Witness ==
  \E r \in Reqs :
    /\ reqs[r].ep = "warnings" /\ Answered(r)
    /\ reqs[r].failed = <<"page">>
    /\ reqs[r].status = 200
    /\ reqs[r].body.alerts = <<>>
    /\ cache.warnings # EmptyEntry
    /\ cache.warnings.data.alerts # <<>>

Buckets == <<"low", "moderate", "considerable">>

\* The place of a bucket on the scale low, moderate, considerable.
Rank(bucket) == CHOOSE i \in 1..3 : Buckets[i] = bucket

\* C20: the bucket is one of low, moderate, considerable; it is considerable
\* whenever snowfall exceeds 20; wind above 40 raises the snowfall bucket by
\* one step; a temperature above 0 with snowfall above 5 raises low to
\* moderate; and larger snowfall or wind never gives a lower bucket.
C20_RiskBucket ==
  rule.fn = "estimateAvalancheRisk" =>
    LET snow == rule.snowfall
        wind == rule.windSpeed
        temp == rule.temp
        calm == IF IsNaN(snow) \/ snow <= 10 * Scale THEN 1
                ELSE IF snow <= 20 * Scale THEN 2 ELSE 3
        windy == IsNumber(wind) /\ wind > 40 * Scale
        thaw == temp > 0 /\ IsNumber(snow) /\ snow > 5 * Scale
    IN /\ rule.out \in {"low", "moderate", "considerable"}
       /\ (IsNumber(snow) /\ snow > 20 * Scale) => rule.out = "considerable"
       /\ (windy /\ calm < 3) => Rank(rule.out) = calm + 1
       /\ (~windy /\ thaw /\ calm = 1) => rule.out = "moderate"
       /\ (~windy /\ ~(thaw /\ calm = 1)) => Rank(rule.out) = calm
       /\ \A more \in SnowSamples :
            (IsNumber(snow) /\ IsNumber(more) /\ more >= snow) =>
              Rank(estimateAvalancheRisk(more, wind, temp)) >= Rank(rule.out)
       /\ \A more \in WindSamples :
            (IsNumber(wind) /\ IsNumber(more) /\ more >= wind) =>
              Rank(estimateAvalancheRisk(snow, more, temp)) >= Rank(rule.out)

\* C20 witness: snowfall 5, wind 45 and temperature -5 gave moderate.
C20_Witness ==
  /\ rule.fn = "estimateAvalancheRisk"
  /\ rule.snowfall = 500 /\ rule.windSpeed = 4500 /\ rule.temp = -500
  /\ rule.out = "moderate"

\* Snowfall 25, wind 10 and temperature -5 gave considerable.
C20_SnowfallRule ==
  /\ rule.fn = "estimateAvalancheRisk"
  /\ rule.snowfall = 2500 /\ rule.windSpeed = 1000 /\ rule.temp = -500
  /\ rule.out = "considerable"

Forecast(r) == reqs[r].ep = "forecast"

\* In this step the forecast request r is answered after its upstream request
\* or the reshaping of the response failed.
ForecastFailure(r) ==
  /\ Forecast(r)
  /\ reqs[r].pc = "meteo"
  /\ reqs'[r].pc = "done"
  /\ reqs'[r].failed # <<>>

\* C14: a forecast request whose upstream request fails, or whose response
\* cannot be reshaped, is answered HTTP 500 with a body of error and message
\* and no step of the request, from its arrival on, changes the cache; no
\* forecast answer is a fallback: the status is 500 exactly after a failure
\* and 200 otherwise.
C14_ForecastSurfacesFailure ==
  [][\A r \in Reqs :
       /\ ForecastFailure(r) =>
            /\ reqs'[r].status = 500
            /\ DOMAIN reqs'[r].body = {"error", "message"}
            /\ reqs'[r].body.error = "Failed to fetch extended forecast"
            /\ reqs'[r].sent = 1
            /\ cache' = cache
       /\ (Forecast(r)' /\ reqs'[r] # reqs[r] /\ ~reqs'[r].wrote) => cache' = cache
       /\ (Forecast(r)' /\ reqs'[r].pc = "done") =>
            /\ reqs'[r].status = (IF reqs'[r].failed # <<>> THEN 500 ELSE 200)
            /\ reqs'[r].failed = <<>> => "daily" \in DOMAIN reqs'[r].body]_vars

\* C14 witness: a forecast request answered 500 after a failure while the slot
\* still holds the forecast an earlier request stored.
C14_Witness ==
  \E r \in Reqs :
    /\ Forecast(r) /\ Answered(r)
    /\ reqs[r].failed = <<"meteo">>
    /\ reqs[r].status = 500
    /\ cache.extendedForecast # EmptyEntry
    /\ cache.extendedForecast.cacheKey # reqs[r].locals.cacheKey

\* The forecast slot is fresh and was stored for the place and the day count
\* of the locals.
FreshFor(locals) ==
  /\ cache.extendedForecast # EmptyEntry
  /\ now - cache.extendedForecast.timestamp < CACHE_DURATION
  /\ cache.extendedForecast.data.location.latitude = locals.latitude
  /\ cache.extendedForecast.data.location.longitude = locals.longitude
  /\ cache.extendedForecast.data.forecastDays = locals.forecastDays

\* C15: a forecast request is served from the cache exactly when the one slot
\* is fresh and was stored for the same latitude, longitude and day count;
\* otherwise it asks the upstream, and the result it stores replaces the slot,
\* key included.
C15_SingleKeyedSlot ==
  [][\A r \in Reqs :
       /\ (reqs[r].pc = "idle" /\ Forecast(r)') =>
            /\ reqs'[r].hit <=> FreshFor(reqs'[r].locals)
            /\ reqs'[r].hit => /\ reqs'[r].pc = "done"
                               /\ reqs'[r].body = cache.extendedForecast.data
                               /\ reqs'[r].calls = <<>>
            /\ ~reqs'[r].hit => reqs'[r].pc = "meteo" /\ reqs'[r].calls = <<"meteo">>
       /\ (Forecast(r) /\ reqs[r].pc = "meteo" /\ reqs'[r].wrote) =>
            cache'.extendedForecast =
              [data |-> reqs'[r].body, timestamp |-> now,
               cacheKey |-> reqs[r].locals.cacheKey]]_vars

\* C15 witness: a request for another key missed on a fresh slot and its
\* result replaced the entry of the first key.
C15_Witness ==
  \E first, second \in Reqs :
    /\ first < second
    /\ Forecast(first) /\ Answered(first) /\ reqs[first].wrote
    /\ Forecast(second) /\ Answered(second) /\ reqs[second].wrote
    /\ reqs[second].age # NoAge /\ reqs[second].age < CACHE_DURATION
    /\ reqs[first].locals.cacheKey # reqs[second].locals.cacheKey
    /\ reqs[second].calls = <<"meteo">>
    /\ cache.extendedForecast.cacheKey = reqs[second].locals.cacheKey
    /\ cache.extendedForecast.data = reqs[second].body

\* The cache slot each handler stores in.
SlotOf(ep) == IF ep = "forecast" THEN "extendedForecast" ELSE ep

Slots == {"avalanche", "warnings", "extendedForecast"}

\* Some request has stored in the slot, at instant t.
StoredAt(slot, t) ==
  \E q \in Reqs : /\ reqs[q].wrote /\ reqs[q].pc = "done"
                  /\ SlotOf(reqs[q].ep) = slot
                  /\ reqs[q].answered = t

\* The instants at which requests were answered.
StoreTimes == { reqs[q].answered : q \in Reqs }

\* C16: the health answer reports null for each slot no request has stored
\* in and otherwise the ISO text of the instant of the slot's last store, and
\* the health request changes no slot.
C16_HealthReportsSlots ==
  [][\A r \in Reqs :
       (reqs[r].pc = "idle" /\ reqs'[r].ep = "health") =>
         /\ cache' = cache
         /\ reqs'[r].pc = "done" /\ reqs'[r].status = 200
         /\ DOMAIN reqs'[r].body.cache = Slots
         /\ \A slot \in Slots :
              IF \E t \in StoreTimes : StoredAt(slot, t)
              THEN /\ reqs'[r].body.cache[slot] # Null
                   /\ \E t \in StoreTimes :
                        /\ StoredAt(slot, t)
                        /\ \A u \in StoreTimes : StoredAt(slot, u) => u <= t
                        /\ reqs'[r].body.cache[slot] = toISOString(t)
              ELSE reqs'[r].body.cache[slot] = Null]_vars

\* C16 witness: a health answer that reports the forecast slot's store time
\* and null for the avalanche slot.
C16_Witness ==
  \E r \in Reqs :
    /\ reqs[r].ep = "health" /\ Answered(r)
    /\ reqs[r].body.cache.extendedForecast = toISOString(cache.extendedForecast.timestamp)
    /\ cache.extendedForecast.timestamp # NullTimestamp
    /\ reqs[r].body.cache.avalanche = Null
    /\ cache.avalanche = EmptyEntry

\* The first upstream stage of the handlers that fetch in revision 3.
FirstStage(ep) == IF ep = "forecast" THEN "meteo" ELSE "xml"

\* The second request arrives for the resource the first one is still
\* fetching after its miss, and no other request has touched that resource.
ArrivesDuringFetch(first, second) ==
  /\ first # second
  /\ reqs[first].ep \in {"avalanche", "forecast"}
  /\ reqs[first].pc = FirstStage(reqs[first].ep)
  /\ ~reqs[first].hit
  /\ reqs[second].pc = "idle"
  /\ reqs'[second].ep = reqs[first].ep
  /\ reqs'[second].locals.cacheKey = reqs[first].locals.cacheKey
  /\ \A q \in Reqs \ {first, second} : reqs[q].ep # reqs[first].ep

\* C17: a request that arrives while another request for the same resource
\* is awaiting its upstream call after a miss also misses and issues its own
\* upstream call; the first call stays in flight.
C17_NoDeduplication ==
  [][\A first, second \in Reqs :
       ArrivesDuringFetch(first, second) =>
         /\ ~reqs'[second].hit
         /\ reqs'[second].pc = FirstStage(reqs[first].ep)
         /\ reqs'[second].calls = <<FirstStage(reqs[first].ep)>>
         /\ reqs'[first] = reqs[first]
         /\ reqs'[first].calls = <<FirstStage(reqs[first].ep)>>]_vars

\* C17 witness: two forecast requests for one key both await Open-Meteo, each
\* on its own call.
C17_Witness ==
  \E first, second \in Reqs :
    /\ first < second
    /\ Forecast(first) /\ Forecast(second)
    /\ reqs[first].locals.cacheKey = reqs[second].locals.cacheKey
    /\ reqs[first].pc = "meteo" /\ reqs[second].pc = "meteo"
    /\ reqs[first].calls = <<"meteo">> /\ reqs[second].calls = <<"meteo">>

\* Two avalanche requests both await the XML source, each on its own call.
C17_AvalancheTwice ==
  \E first, second \in Reqs :
    /\ first < second
    /\ Avalanche(first) /\ Avalanche(second)
    /\ reqs[first].pc = "xml" /\ reqs[second].pc = "xml"
    /\ reqs[first].calls = <<"xml">> /\ reqs[second].calls = <<"xml">>

\* The provenance labels of the running revision (1082, 516; 560; 1261, 782).
StructuredLabel ==
  IF rev = 3 THEN "Meteo-France XML (Risk levels) + Enhanced descriptions"
  ELSE "Meteo-France XML"

HeuristicLabel == "Meteo-France Web Scraping"

FallbackLabel ==
  IF rev = 3 THEN "Fallback - Unable to connect to Meteo-France"
  ELSE "Mock Data (Scraping Failed)"

\* The stage whose result answered a request that missed: the stage called
\* last when it did not fail, the fallback when every stage called failed.
Producer(r) ==
  IF reqs[r].failed = reqs[r].calls THEN "fallback"
  ELSE reqs[r].calls[Len(reqs[r].calls)]

\* A bulletin without the instants written into it.
Stripped(b) == [b EXCEPT !.updateTime = "", !.validUntil = ""]

\* The bulletins each builder can build from the documents and pages served.
StructuredBuilt3 == { Stripped(StructuredBulletin(doc, 0)) : doc \in XmlDocs }

StructuredBuilt2 == { Stripped(parseMeteoFranceXML(doc, 0)) : doc \in XmlDocs }

HeuristicBuilt == { Stripped(scrapeMeteoFranceWeb(page, 0)) : page \in Pages }

FallbackBuilt3 == { Stripped(getFallbackBulletin(0)) }

FallbackBuilt2 == { Stripped(MockWithError(0)) }

\* b is a bulletin the named stage of the running revision builds.
BuiltBy(b, stage) ==
  /\ IsBulletin(b)
  /\ CASE stage = "xml" ->
            Stripped(b) \in (IF rev = 3 THEN StructuredBuilt3 ELSE StructuredBuilt2)
       [] stage = "web" -> rev = 2 /\ Stripped(b) \in HeuristicBuilt
       [] stage = "fallback" ->
            Stripped(b) \in (IF rev = 3 THEN FallbackBuilt3 ELSE FallbackBuilt2)

\* C18: every bulletin the avalanche endpoint answers with, built for the
\* request or taken from the cache, carries one of three pairwise distinct
\* labels: the structured label exactly when the primary stage built it, the
\* heuristic label exactly when the secondary stage built it, the fallback
\* label exactly when it was synthesized after every stage failed.
C18_LabelNamesStage ==
  /\ StructuredLabel # HeuristicLabel
  /\ StructuredLabel # FallbackLabel
  /\ HeuristicLabel # FallbackLabel
  /\ \A r \in Reqs : Avalanche(r) /\ Answered(r) =>
       LET b == reqs[r].body IN
       /\ IsBulletin(b)
       /\ b.dataSource \in {StructuredLabel, HeuristicLabel, FallbackLabel}
       /\ b.dataSource = StructuredLabel <=> BuiltBy(b, "xml")
       /\ b.dataSource = HeuristicLabel <=> BuiltBy(b, "web")
       /\ b.dataSource = FallbackLabel <=> BuiltBy(b, "fallback")
       /\ ~reqs[r].hit =>
            /\ b.dataSource = StructuredLabel <=> Producer(r) = "xml"
            /\ b.dataSource = HeuristicLabel <=> Producer(r) = "web"
            /\ b.dataSource = FallbackLabel <=> Producer(r) = "fallback"
       /\ reqs[r].hit => b.dataSource # FallbackLabel

\* C18 witness: the secondary stage built a bulletin after the primary one
\* failed, and a later request is served that bulletin from the cache with
\* the heuristic label.
C18_Witness ==
  \E r, s \in Reqs :
    /\ Avalanche(r) /\ Answered(r) /\ ~reqs[r].hit
    /\ reqs[r].calls = <<"xml", "web">> /\ reqs[r].failed = <<"xml">>
    /\ reqs[r].body.dataSource = HeuristicLabel
    /\ Avalanche(s) /\ Answered(s) /\ reqs[s].hit
    /\ reqs[s].body = reqs[r].body

\* A structured bulletin of revision 3 served from the cache.
C18_StructuredFromCache ==
  \E r \in Reqs :
    /\ rev = 3 /\ Avalanche(r) /\ Answered(r) /\ reqs[r].hit
    /\ reqs[r].body.dataSource = StructuredLabel

\* A fallback bulletin carrying the fallback label.
C18_FallbackLabelled ==
  \E r \in Reqs :
    /\ AllFailed(r) /\ reqs[r].body.dataSource = FallbackLabel

\* C19 as stated: every bulletin the avalanche endpoint answers with has an
\* overallRisk that is an integer from 1 to 5, whatever risk attributes the
\* upstream document carries.
C19_Original ==
  \A r \in Reqs : Avalanche(r) /\ Answered(r) =>
    /\ IsBulletin(reqs[r].body)
    /\ InScale(reqs[r].body.overallRisk)

\* The bulletins that do not come from the XML attributes, the scraped and
\* the synthesized ones, have an overallRisk from 1 to 5.
C19_ScannedAndSynthesizedInScale ==
  \A r \in Reqs :
    Avalanche(r) /\ Answered(r) /\ ~BuiltBy(reqs[r].body, "xml") =>
      InScale(reqs[r].body.overallRisk)

\* An answer whose overallRisk is no number at all.
C19_NotANumber ==
  \E r \in Reqs :
    Avalanche(r) /\ Answered(r) /\ reqs[r].body.overallRisk = NaN

\* The types of a problem list, in order.
ProblemTypes(problems) == [i \in 1..Len(problems) |-> problems[i].type]

\* The problem types the rule of revision 3 gives a level of the scale.
TypesFor(level) ==
  (IF level >= 2 THEN <<"Wind Slab">> ELSE <<>>)
  \o (IF level >= 3 THEN <<"Persistent Weak Layers">> ELSE <<>>)
  \o (IF level >= 2 THEN <<"Wet Snow">> ELSE <<>>)
  \o (IF level = 1 THEN <<"Generally stable conditions">> ELSE <<>>)

\* The problem types the default list of revision 2 gives a level.
DefaultTypesFor(level) ==
  (IF level >= 3 THEN <<"Wind Slab">> ELSE <<>>)
  \o (IF level >= 2 THEN <<"Persistent Weak Layers">> ELSE <<>>)

\* The problem list that was computed and the level it was computed for.
ProblemsApplied ==
  rule.fn \in {"generateProblems", "getDefaultProblems"} \cup BulletinBuilders

ProblemsOut == IF rule.fn \in BulletinBuilders THEN rule.out.problems ELSE rule.out

ProblemsLevel == IF rule.fn \in BulletinBuilders THEN rule.out.overallRisk ELSE rule.level

\* C21 as stated: for each level from 1 to 5 the problem list, computed alone
\* or inside a bulletin by whichever stage, is never empty; it holds "Wind
\* Slab" iff level >= 2, "Persistent Weak Layers" iff level >= 3 and "Wet
\* Snow" iff level >= 2, in that order, and the one placeholder at level 1.
C21_Original ==
  (ProblemsApplied /\ InScale(ProblemsLevel)) =>
    /\ Len(ProblemsOut) > 0
    /\ ProblemTypes(ProblemsOut) = TypesFor(ProblemsLevel)

\* The problem types of a bulletin parsed in revision 2 from a document that
\* names no problem type.
ParsedTypesFor(level) ==
  IF level >= 3 THEN <<"Wind Slab">> ELSE DefaultTypesFor(level)

\* C21 amended: the rule as stated is that of generateProblems and of the
\* bulletins of revision 3.  The default list of revision 2 holds "Wind Slab"
\* iff level >= 3 and "Persistent Weak Layers" iff level >= 2, in that order,
\* never "Wet Snow", and is empty at level 1; a bulletin parsed in revision 2
\* from a document that names no problem type lists "Wind Slab" alone from
\* level 3 and the default list below.
C21_ProblemsByRevision ==
  (ProblemsApplied /\ InScale(ProblemsLevel)) =>
    IF rev = 3
    THEN /\ Len(ProblemsOut) > 0
         /\ ProblemTypes(ProblemsOut) = TypesFor(ProblemsLevel)
    ELSE /\ rule.fn = "getDefaultProblems" =>
              ProblemTypes(ProblemsOut) = DefaultTypesFor(ProblemsLevel)
         /\ rule.fn = "parseMeteoFranceXML" =>
              ProblemTypes(ProblemsOut) = ParsedTypesFor(ProblemsLevel)
         /\ Len(ProblemsOut) = 0 <=> ProblemsLevel = 1

\* C21 witness: level 1 gave the single placeholder entry.
C21_Witness ==
  /\ rule.fn = "generateProblems" /\ rule.level = 1
  /\ Len(rule.out) = 1
  /\ rule.out[1].type = "Generally stable conditions"

\* The default list of revision 2 came out empty at level 1.
C21_EmptyDefault ==
  /\ rule.fn = "getDefaultProblems" /\ rule.level = 1 /\ rule.out = <<>>

\* A structured bulletin of level 3 lists the three problems.
C21_ThreeInBulletin ==
  /\ rule.fn = "StructuredBulletin" /\ rule.out.overallRisk = 3
  /\ Len(rule.out.problems) = 3

\* The day count that was computed from the days parameter.
DaysApplied == rule.fn \in {"ForecastLocals", "ForecastData"}

DayCount == rule.out.forecastDays

\* The number the days parameter asks for, NaN when it spells none.
Requested == ParseInt(rule.days)

\* The day count follows the stated cases of the requested number.
DayCountCases ==
  /\ IsNumber(DayCount) /\ DayCount <= 16
  /\ (IsNumber(Requested) /\ Requested \in 1..16) => DayCount = Requested
  /\ (IsNumber(Requested) /\ Requested > 16) => DayCount = 16
  /\ IsNaN(Requested) => DayCount = 7

\* C22 as stated: for every value of the days parameter the day count is at
\* most 16, the requested value when that is from 1 to 16, 16 when it is
\* more and 7 when the parameter is absent or no number; the daily list has
\* as many entries as the day count.
C22_Original ==
  DaysApplied =>
    /\ DayCountCases
    /\ rule.fn = "ForecastData" => Len(rule.out.daily) = DayCount

\* The stated cases hold for every value, and the daily list has as many
\* entries as the day count whenever that count is at least 1.
C22_PositiveDayCount ==
  DaysApplied =>
    /\ DayCountCases
    /\ (rule.fn = "ForecastData" /\ DayCount >= 1) => Len(rule.out.daily) = DayCount
    /\ Requested = 0 => DayCount = 7
    /\ (IsNumber(Requested) /\ Requested < 0) => DayCount = Requested

\* The parameter "-2" gave the day count -2 and an empty daily list.
C22_NegativeDayCount ==
  /\ rule.fn = "ForecastData" /\ rule.days = <<"-", "2">>
  /\ rule.out.forecastDays = 0 - 2
  /\ rule.out.daily = <<>>

\* The parameter "77" gave 16 days and the absent one gave 7.
C22_Capped ==
  /\ rule.fn = "ForecastData" /\ rule.days = <<"7", "7">>
  /\ rule.out.forecastDays = 16 /\ Len(rule.out.daily) = 16

C22_Defaulted ==
  /\ rule.fn = "ForecastData" /\ rule.days = <<>>
  /\ rule.out.forecastDays = 7 /\ Len(rule.out.daily) = 7

\* A slot is whole: empty, with payload and timestamp both null, or
\* populated, with both set.
Whole(entry) ==
  \/ entry = EmptyEntry
  \/ entry.data # NullData /\ entry.timestamp # NullTimestamp

\* C23: in every state each cache slot is either empty or fully populated; a
\* step that changes a slot sets its payload and its timestamp, the instant
\* of the write, together; a populated slot never becomes empty again.
C23_SlotIntegrity ==
  /\ [](\A slot \in DOMAIN cache : Whole(cache[slot]))
  /\ [][\A slot \in DOMAIN cache :
          /\ cache[slot] # EmptyEntry => cache'[slot] # EmptyEntry
          /\ cache'[slot] # cache[slot] =>
               /\ cache'[slot].data # NullData
               /\ cache'[slot].timestamp = now]_vars

\* C23 witness: one request populated the avalanche slot and another the
\* forecast slot, each with payload, timestamp and, for the forecast, its
\* key; the warnings slot is still empty.
C23_Witness ==
  /\ cache.warnings = EmptyEntry
  /\ cache.avalanche # EmptyEntry /\ Whole(cache.avalanche)
  /\ cache.extendedForecast # EmptyEntry /\ Whole(cache.extendedForecast)
  /\ \E r, s \in Reqs :
       /\ Avalanche(r) /\ reqs[r].wrote
       /\ Forecast(s) /\ reqs[s].wrote
       /\ cache.extendedForecast.cacheKey = reqs[s].locals.cacheKey

\* The forecast slot was written a second time while populated.
C23_Rewritten ==
  \E r, s \in Reqs :
    /\ r # s /\ Forecast(r) /\ Forecast(s)
    /\ reqs[r].wrote /\ reqs[s].wrote
    /\ Whole(cache.extendedForecast)

\* The documents whose two zone risk attributes are present and spell numbers.
WellFormedDocs ==
  { doc \in XmlDocs : /\ doc.LOC1 # <<>> /\ IsNumber(ParseInt(doc.LOC1))
                      /\ doc.LOC2 # <<>> /\ IsNumber(ParseInt(doc.LOC2)) }

\* The structured bulletins of the well-formed documents.
WellFormedBuilt ==
  { Stripped(StructuredBulletin(doc, 0)) : doc \in WellFormedDocs }
    \cup { Stripped(parseMeteoFranceXML(doc, 0)) : doc \in WellFormedDocs }

\* C24 as stated: the primary stage emits and caches a structured bulletin
\* only for a document whose zone risk attributes are present and well
\* formed; otherwise the pipeline moves on to the next stage.
C24_Original ==
  /\ \A r \in Reqs :
       (Avalanche(r) /\ Answered(r) /\ reqs[r].body.dataSource = StructuredLabel) =>
         Stripped(reqs[r].body) \in WellFormedBuilt
  /\ cache.avalanche # EmptyEntry =>
       (cache.avalanche.data.dataSource = StructuredLabel =>
          Stripped(cache.avalanche.data) \in WellFormedBuilt)

\* The primary stage of request r fails in this step.
PrimaryFails(r) ==
  /\ Avalanche(r) /\ reqs[r].pc = "xml"
  /\ reqs'[r].failed = Append(reqs[r].failed, "xml")

\* The primary stage of request r succeeds in this step.
PrimarySucceeds(r) ==
  /\ Avalanche(r) /\ reqs[r].pc = "xml"
  /\ reqs'[r] # reqs[r]
  /\ reqs'[r].failed = reqs[r].failed

\* C24 amended: when the primary request fails or its body cannot be loaded,
\* the primary stage emits and caches nothing and the pipeline moves on, to
\* the page source in revision 2 and to the fallback in revision 3; every
\* body that loads, its zone risk attributes present or not, gives a
\* structured bulletin that is emitted and cached.
C24_FallThroughOnThrow ==
  [][\A r \in Reqs :
       /\ PrimaryFails(r) =>
            /\ cache' = cache
            /\ rev = 2 => /\ reqs'[r].pc = "web"
                          /\ reqs'[r].calls = <<"xml", "web">>
            /\ rev = 3 => /\ reqs'[r].pc = "done"
                          /\ reqs'[r].body = getFallbackBulletin(now)
       /\ PrimarySucceeds(r) =>
            /\ reqs'[r].pc = "done"
            /\ reqs'[r].body.dataSource = StructuredLabel
            /\ BuiltBy(reqs'[r].body, "xml")
            /\ cache'.avalanche = [data |-> reqs'[r].body, timestamp |-> now]]_vars

\* The bulletin built from the document without RISQUE attributes.
DefaultedBuilt ==
  LET doc == XmlDoc(<<>>, <<>>, "2026-01-15T16:00:00", "Plaques friables", <<"plaques">>)
  IN IF rev = 3 THEN Stripped(StructuredBulletin(doc, 0))
     ELSE Stripped(parseMeteoFranceXML(doc, 0))

\* C24 witness: the primary source answered with a document that has no zone
\* risk attributes, and the structured bulletin of the defaults 3 and 2 was
\* emitted and cached.
C24_Witness ==
  \E r \in Reqs :
    /\ Avalanche(r) /\ Answered(r) /\ reqs[r].wrote
    /\ reqs[r].calls = <<"xml">> /\ reqs[r].failed = <<>>
    /\ Stripped(reqs[r].body) = DefaultedBuilt
    /\ reqs[r].body.elevationBands[1].risk = 3
    /\ reqs[r].body.elevationBands[3].risk = 2
    /\ cache.avalanche.data = reqs[r].body

\* The primary stage failed in revision 2 and the page source is awaited.
C24_MovedOn ==
  \E r \in Reqs :
    /\ rev = 2 /\ Avalanche(r) /\ reqs[r].pc = "web"
    /\ reqs[r].failed = <<"xml">> /\ cache.avalanche = EmptyEntry

\* Two pages were scraped and gave the same risk level.
SameLevelScraped ==
  /\ rule.fn = "scrapeMeteoFranceWeb"
  /\ rule.out[1].overallRisk = rule.out[2].overallRisk

\* A bulletin without its instants and its summary.
Unsummarized(b) == [Stripped(b) EXCEPT !.summary = ""]

\* C25 as stated: two pages that give the same scanned risk level give
\* bulletins equal in every field but the two instants.
C25_Original ==
  SameLevelScraped => Stripped(rule.out[1]) = Stripped(rule.out[2])

\* C25 amended: two pages that give the same scanned risk level give
\* bulletins equal in every field but the two instants and the summary; the
\* summary is the translated text of the page's summary element, the same
\* for pages with the same such text, and the summary of the risk level when
\* the page has none.
C25_LevelAndSummaryOnly ==
  SameLevelScraped =>
    /\ Unsummarized(rule.out[1]) = Unsummarized(rule.out[2])
    /\ rule.first.resume = rule.second.resume =>
         rule.out[1].summary = rule.out[2].summary
    /\ \A i \in 1..2 :
         LET page == IF i = 1 THEN rule.first ELSE rule.second
         IN /\ page.resume = "" =>
                 rule.out[i].summary = generateSummary(rule.out[i].overallRisk)
            /\ page.resume # "" => rule.out[i].summary = translateText(page.resume)

\* C25 witness: two pages whose risk texts differ and whose summary elements
\* are empty gave level 4 and the same bulletin but for the instants.
C25_Witness ==
  /\ SameLevelScraped
  /\ rule.out[1].overallRisk = 4
  /\ rule.first.riskText # rule.second.riskText
  /\ rule.first.resume = "" /\ rule.second.resume = ""
  /\ rule.out[1].updateTime # rule.out[2].updateTime
  /\ Stripped(rule.out[1]) = Stripped(rule.out[2])

\* Two pages of one level whose summaries differ.
C25_SummariesDiffer ==
  /\ SameLevelScraped
  /\ rule.out[1].summary = "Neige stable"
  /\ rule.out[2].summary = "high risk"

\* The instant the run starts at.
StartInstant == 1

\* The requests of endpoint ep that have started an upstream fetch.
Fetchers(ep) == { r \in Reqs : reqs[r].ep = ep /\ reqs[r].calls # <<>> }

\* C26 as stated: for each resource at most one upstream fetch sequence is
\* started within any window of the cache duration, also when several
\* requests for it are in flight at once.
C26_Original ==
  now - StartInstant < CACHE_DURATION =>
    \A ep \in Cached : Cardinality(Fetchers(ep)) <= 1

\* Request r arrives at its handler in this step.
Arrives(r) == reqs[r].pc = "idle" /\ reqs'[r].pc # "idle" /\ reqs'[r].ep \in Cached

\* C26 amended: a request that arrives less than the cache duration after a
\* store in its slot starts no upstream fetch and leaves the slot alone; a
\* request that arrives on an empty or expired slot starts its own fetch
\* sequence, whether or not other requests for the resource are in flight.
C26_NoFetchAfterStore ==
  [][\A r \in Reqs : Arrives(r) =>
       LET ep == reqs'[r].ep
           fresh == /\ cache[ep] # EmptyEntry
                    /\ now - cache[ep].timestamp < CACHE_DURATION
       IN /\ fresh => /\ reqs'[r].calls = <<>>
                      /\ reqs'[r].pc = "done"
                      /\ cache' = cache
          /\ (~fresh /\ Primary(ep) # <<>>) =>
               /\ reqs'[r].calls = Primary(ep)
               /\ reqs'[r].pc = Primary(ep)[1]
               /\ \A q \in Reqs \ {r} : reqs'[q] = reqs[q]]_vars

\* C26 witness: two requests for the avalanche bulletin started a fetch each
\* within one cache duration, the second while the first was in flight, and a
\* store has happened since.
C26_Witness ==
  /\ now - StartInstant < CACHE_DURATION
  /\ Cardinality(Fetchers("avalanche")) = 2
  /\ cache.avalanche # EmptyEntry
  /\ \E r \in Reqs : Avalanche(r) /\ reqs[r].pc \in {"xml", "web"}

\* A request that arrived after a store within the cache duration started no
\* fetch.
C26_ServedWithoutFetch ==
  \E r, s \in Reqs :
    /\ Avalanche(r) /\ reqs[r].wrote
    /\ Avalanche(s) /\ reqs[s].hit /\ reqs[s].calls = <<>>
    /\ reqs[s].answered - reqs[r].answered < CACHE_DURATION

\* The entry request r wrote: what it answered with, at the instant it
\* answered, and for the forecast the key of its query.
EntryOf(r) ==
  IF reqs[r].ep = "forecast"
  THEN [data |-> reqs[r].body, timestamp |-> reqs[r].answered,
        cacheKey |-> reqs[r].locals.cacheKey]
  ELSE [data |-> reqs[r].body, timestamp |-> reqs[r].answered]

\* The requests that have written the slot.
Writers(slot) == { r \in Reqs : reqs[r].wrote /\ SlotOf(reqs[r].ep) = slot }

\* C27: a cache write replaces the whole slot with the writer's payload and
\* instant whatever the slot held, a fresh entry included, and touches no
\* other slot; so a slot that has been written holds exactly the entry of a
\* writer that completed last, never a mix of two writers' entries.
C27_LastWriterWins ==
  /\ [][\A r \in Reqs : (~reqs[r].wrote /\ reqs'[r].wrote) =>
          /\ cache'[SlotOf(reqs'[r].ep)] = EntryOf(r)'
          /\ \A slot \in Slots \ {SlotOf(reqs'[r].ep)} : cache'[slot] = cache[slot]]_vars
  /\ [](\A slot \in Slots : Writers(slot) # {} =>
          \E w \in Writers(slot) :
            /\ cache[slot] = EntryOf(w)
            /\ \A v \in Writers(slot) : reqs[v].answered <= reqs[w].answered)

\* C27 witness: two forecast requests missed and fetched, the second wrote
\* while the entry of the first was still fresh, and the slot holds the
\* entry of the second alone.
C27_Witness ==
  \E r, s \in Reqs :
    /\ r # s /\ Forecast(r) /\ Forecast(s)
    /\ reqs[r].wrote /\ reqs[s].wrote
    /\ reqs[r].answered < reqs[s].answered
    /\ reqs[s].answered - reqs[r].answered < CACHE_DURATION
    /\ cache.extendedForecast = EntryOf(s)
    /\ cache.extendedForecast # EntryOf(r)

\* The same for two avalanche requests.
C27_AvalancheOverwritten ==
  \E r, s \in Reqs :
    /\ r # s /\ Avalanche(r) /\ Avalanche(s)
    /\ reqs[r].wrote /\ reqs[s].wrote
    /\ reqs[r].answered < reqs[s].answered
    /\ reqs[s].answered - reqs[r].answered < CACHE_DURATION
    /\ cache.avalanche = EntryOf(s)

\* Request r has arrived and is not answered yet.
InFlight(r) == reqs[r].pc \notin {"idle", "done"}

\* No stage occurs twice in a list of calls.
NoRepeat(calls) ==
  \A i, j \in 1..Len(calls) : calls[i] = calls[j] => i = j

\* C28: when every outbound call resolves or times out, every avalanche,
\* warnings and forecast request that has arrived is eventually answered; a
\* handler makes at most two outbound calls and calls no source twice.
C28_EventuallyAnswered ==
  /\ \A r \in Reqs : InFlight(r) ~> Answered(r)
  /\ [](\A r \in Reqs : Len(reqs[r].calls) <= 2 /\ NoRepeat(reqs[r].calls))

\* C28 witness: a request was answered after both of its outbound calls,
\* each made once, had failed.
C28_Witness ==
  \E r \in Reqs :
    /\ Avalanche(r) /\ Answered(r)
    /\ reqs[r].calls = <<"xml", "web">>
    /\ reqs[r].failed = <<"xml", "web">>
    /\ reqs[r].sent = 1

\* A forecast request was answered after its one outbound call.
C28_ForecastAnswered ==
  \E r \in Reqs : Forecast(r) /\ Answered(r) /\ reqs[r].calls = <<"meteo">>

\* The endpoints that read the cache.
CacheReaders == {"avalanche", "warnings", "forecast"}

\* Request r is answered in this step after every outbound call it made had
\* failed.
AnsweredAfterFailure(r) ==
  /\ InFlight(r) /\ reqs'[r].pc = "done"
  /\ reqs'[r].failed = reqs'[r].calls

\* C29: a response taken from the cache is the payload of an entry younger
\* than the cache duration at the instant of the test; a request whose
\* upstream fetch fails is answered with the fallback, or HTTP 500 for the
\* forecast, and never with the payload the slot holds.
C29_StaleNeverServed ==
  [][\A r \in Reqs :
       /\ (reqs[r].pc = "idle" /\ reqs'[r].hit) =>
            LET entry == cache[SlotOf(reqs'[r].ep)]
            IN /\ reqs'[r].ep \in CacheReaders
               /\ entry # EmptyEntry
               /\ now - entry.timestamp < CACHE_DURATION
               /\ reqs'[r].body = entry.data
       /\ (reqs[r].pc = "idle" /\ reqs'[r].pc # "idle" /\ reqs'[r].ep \in CacheReaders
             /\ cache[SlotOf(reqs'[r].ep)] # EmptyEntry
             /\ now - cache[SlotOf(reqs'[r].ep)].timestamp >= CACHE_DURATION) =>
            ~reqs'[r].hit
       /\ AnsweredAfterFailure(r) =>
            /\ reqs'[r].body # cache[SlotOf(reqs[r].ep)].data
            /\ reqs[r].ep = "avalanche" =>
                 reqs'[r].status = 200 /\ reqs'[r].body = Synthesized(now)
            /\ reqs[r].ep = "forecast" =>
                 reqs'[r].status = 500 /\ DOMAIN reqs'[r].body = {"error", "message"}]_vars

\* C29 witness: a forecast request found the entry of its key as old as the
\* cache duration, its upstream request failed, and it was answered HTTP 500
\* while the old payload stayed in the slot.
C29_Witness ==
  \E r, s \in Reqs :
    /\ Forecast(r) /\ reqs[r].wrote /\ Forecast(s) /\ Answered(s)
    /\ reqs[s].locals.cacheKey = reqs[r].locals.cacheKey
    /\ reqs[s].failed = <<"meteo">> /\ reqs[s].status = 500
    /\ reqs[s].answered - reqs[r].answered >= CACHE_DURATION
    /\ cache.extendedForecast = EntryOf(r)

\* The same for the avalanche bulletin: the fallback is the answer while the
\* expired bulletin stays in the slot.
C29_AvalancheFallback ==
  \E r, s \in Reqs :
    /\ Avalanche(r) /\ reqs[r].wrote /\ Avalanche(s) /\ Answered(s)
    /\ reqs[s].failed = <<"xml">> /\ reqs[s].age >= CACHE_DURATION
    /\ IsFallback(reqs[s].body)
    /\ cache.avalanche = EntryOf(r)

\* C30: a request has been sent no response while its handler runs and
\* exactly one once the handler has ended; an answered request is never
\* answered again; and a handler that has started does send its response.
C30_AnsweredOnce ==
  /\ [](\A r \in Reqs : /\ reqs[r].sent \in {0, 1}
                        /\ reqs[r].sent = 1 <=> Answered(r))
  /\ [][\A r \in Reqs : Answered(r) => reqs'[r] = reqs[r]]_vars
  /\ \A r \in Reqs : InFlight(r) ~> (reqs[r].sent = 1)

\* C30 witness: one request was answered once after the primary stage failed
\* and the secondary succeeded, and another once from the cache.
C30_Witness ==
  \E r, s \in Reqs :
    /\ Avalanche(r) /\ Answered(r) /\ reqs[r].sent = 1
    /\ reqs[r].calls = <<"xml", "web">> /\ reqs[r].failed = <<"xml">>
    /\ Avalanche(s) /\ Answered(s) /\ reqs[s].hit /\ reqs[s].sent = 1

\* A forecast request answered once with the failure, and one answered once
\* with the forecast it stored.
C30_ForecastPaths ==
  \E r, s \in Reqs :
    /\ Forecast(r) /\ reqs[r].status = 500 /\ reqs[r].sent = 1
    /\ Forecast(s) /\ reqs[s].wrote /\ reqs[s].sent = 1

\* The handler of request r acts in this step.
Acts(r) == reqs'[r] # reqs[r]

\* C31: a step of the handler of a request changes no cache slot but the one
\* of the request's own resource, whatever the outcome; a health or root
\* request changes no slot at all; and whether an arriving avalanche,
\* warnings or forecast request is served from the cache, and with what, is
\* decided by its own slot alone.
C31_SlotIsolation ==
  [][\A r \in Reqs : Acts(r) =>
       LET ep == reqs'[r].ep
           own == SlotOf(ep)
       IN /\ \A slot \in Slots \ {own} : cache'[slot] = cache[slot]
          /\ ep \in {"health", "root"} => cache' = cache
          /\ (reqs[r].pc = "idle" /\ ep \in CacheReaders) =>
               /\ reqs'[r].hit <=>
                    /\ isCacheValid(cache[own], now)
                    /\ ep = "forecast" => cache[own].cacheKey = reqs'[r].locals.cacheKey
               /\ reqs'[r].hit => reqs'[r].body = cache[own].data]_vars

\* C31 witness: an avalanche request stored its bulletin, a forecast request
\* stored its forecast later, and the avalanche slot still holds the entry of
\* the first while the warnings slot is untouched.
C31_Witness ==
  \E r, s \in Reqs :
    /\ Avalanche(r) /\ reqs[r].wrote
    /\ Forecast(s) /\ reqs[s].wrote
    /\ reqs[r].answered < reqs[s].answered
    /\ cache.avalanche = EntryOf(r)
    /\ cache.extendedForecast = EntryOf(s)
    /\ cache.warnings = EmptyEntry

\* A failed avalanche request and a root request left a populated forecast
\* slot as it was.
C31_FailureLeavesOthers ==
  \E r, s \in Reqs :
    /\ Forecast(r) /\ reqs[r].wrote /\ cache.extendedForecast = EntryOf(r)
    /\ Avalanche(s) /\ Answered(s) /\ reqs[s].failed = <<"xml">>
    /\ reqs[r].answered <= reqs[s].answered

C31_RootLeavesAll ==
  \E r, s \in Reqs :
    /\ Forecast(r) /\ reqs[r].wrote /\ cache.extendedForecast = EntryOf(r)
    /\ reqs[s].ep = "root" /\ Answered(s) /\ r < s

====
